---- MODULE Spec2Model ----
(***************************************************************************)
(* The component upgrade registry of scripts/mdlComponentHandler.js:       *)
(* registeredComponents_, createdComponents_, the data-upgraded attribute  *)
(* of every element, the public operations of componentHandler and the     *)
(* listener of the window's load event.                                    *)
(*                                                                         *)
(* A JavaScript string is a sequence of tokens; a logical name is a one-   *)
(* token string and "," is the separator token, so that split(',') and     *)
(* join(',') are computed and not assumed.                                 *)
(*                                                                         *)
(* Spec is the handler on a page whose callbacks and listeners leave the   *)
(* handler alone; SpecCompleted is Spec without the calls that raise; and  *)
(* SpecReentrant adds a callback and listeners that call upgradeElement    *)
(* and downgradeElements back while a call is running.                     *)
(***************************************************************************)
EXTENDS Integers, Sequences, FiniteSets, TLC

\* ------------------------------------------------------------------ bounds
\* at most this many callbacks are registered per descriptor
MaxCallbacks == 2
\* at most this many elements carry a listener that cancels "upgrading"
MaxPreventers == 1
\* at most this many calls are made in one run
MaxCalls == 4

\* ------------------------------------------------------- the host document
\* <body><div class="a"><span class="b"/></div><p class="a b"/>text</body>:
\* three elements and a text node, which is a Node but no Element.
Elements == {"div", "span", "p"}
TextNode == "#text"
NotANode == "notANode"
Nodes == Elements \cup {TextNode}

children(e) ==
  CASE e = "div" -> <<"span">>
    [] OTHER -> <<>>

classList(e) ==
  CASE e = "div" -> {"a"}
    [] e = "span" -> {"b"}
    [] e = "p" -> {"a", "b"}
    [] OTHER -> {}

\* the hosts the script is loaded on: one that passes the feature test of the
\* load listener, and one whose elements have no classList
Hosts == {"modern", "noClassList"}
\* 'classList' in document.createElement('div')
HasClassList(host) == host = "modern"

\* document order, as querySelectorAll returns it
DocumentOrder == <<"div", "span", "p">>

\* ------------------------------------------------------- inputs of the calls
ClassNames == {"LogicalA", "LogicalB"}
CssClasses == {"a", "b"}
\* Widget sets element_; Throwing raises in its body; Reserved defines
\* mdlComponentConfigInternal_ on its prototype.
Constructors == {"Widget", "Throwing", "Reserved"}
\* the values of config.widget: absent, a boolean, or a string (here the empty one)
WidgetArgs == {"undefined", "true", "false", "''"}
\* ToBoolean of a value of WidgetArgs
Truthy(v) == v \notin {"undefined", "false", "''"}
\* a || b
Or(a, b) == IF Truthy(a) THEN a ELSE b
Callbacks == {"cb1", "cb2"}

Comma == ","
\* the string whose text is the logical name n
Str(n) == <<n>>

\* an optional string argument: undefined, or a string
Undefined == [defined |-> FALSE, str |-> <<>>]
Def(str) == [defined |-> TRUE, str |-> str]

Max(a, b) == IF a > b THEN a ELSE b
Min(a, b) == IF a < b THEN a ELSE b

\* ------------------------------------------------------ JavaScript built-ins
\* String.prototype.split(',')
RECURSIVE split(_)
split(str) ==
  IF \A i \in 1..Len(str) : str[i] # Comma
  THEN <<str>>
  ELSE LET i == CHOOSE k \in 1..Len(str) :
                  str[k] = Comma /\ \A j \in 1..(k-1) : str[j] # Comma
       IN <<SubSeq(str, 1, i-1)>> \o split(SubSeq(str, i+1, Len(str)))

\* Array.prototype.join(',')
RECURSIVE join(_)
join(list) ==
  IF Len(list) = 0 THEN <<>>
  ELSE IF Len(list) = 1 THEN list[1]
  ELSE list[1] \o <<Comma>> \o join(Tail(list))

\* Array.prototype.indexOf, 0-based, -1 when absent
indexOf(list, x) ==
  IF \E i \in 1..Len(list) : list[i] = x
  THEN (CHOOSE i \in 1..Len(list) :
          list[i] = x /\ \A j \in 1..(i-1) : list[j] # x) - 1
  ELSE -1

\* indexOf of an optional string in a list of strings: undefined equals no string
indexOfValue(list, v) == IF v.defined THEN indexOf(list, v.str) ELSE -1

\* Array.prototype.splice(start, 1): a negative start counts from the end
splice1(list, start) ==
  LET n == Len(list)
      s == IF start < 0 THEN Max(n + start, 0) ELSE Min(start, n)
  IN IF s >= n THEN list
     ELSE SubSeq(list, 1, s) \o SubSeq(list, s + 2, n)

\* obj.key of a descriptor, undefined when the descriptor has no such property
Prop(obj, key) == IF key \in DOMAIN obj THEN Def(obj[key]) ELSE Undefined

\* --------------------------------------------------------------------- state
VARIABLES
  registeredComponents_,  \* sequence of descriptors
  createdComponents_,     \* sequence of tracked instances
  dataUpgraded,           \* element -> its data-upgraded attribute
  elementProps,           \* element -> logical name -> id of the exposed instance, 0 if none
  preventers,             \* elements with a listener that cancels "mdl-componentupgrading"
  trace,                  \* what the last call did, in order
  thrown,                 \* the error the last call raised, "" if none
  lastCall,               \* the last call and its arguments
  calls,                  \* the number of calls made so far
  host,                   \* the host the script runs on
  mdlJs,                  \* whether <html> has the class mdl-js
  disabled,               \* whether upgradeElement and register were replaced by function () {}
  onUpgraded,             \* elements with a listener of "mdl-componentupgraded" that upgrades them
  onDowngraded            \* elements with a listener of "mdl-componentdowngraded" that downgrades them

vars == <<registeredComponents_, createdComponents_, dataUpgraded, elementProps,
          preventers, trace, thrown, lastCall, calls, host, mdlJs, disabled,
          onUpgraded, onDowngraded>>

NullAttr == [isNull |-> TRUE, str |-> <<>>]
Attr(str) == [isNull |-> FALSE, str |-> str]

\* the handler's state as one value, threaded through the calls
Cur ==
  [reg |-> registeredComponents_, created |-> createdComponents_,
   attr |-> dataUpgraded, props |-> elementProps, preventers |-> preventers,
   host |-> host, disabled |-> disabled, onUpgraded |-> onUpgraded,
   onDowngraded |-> onDowngraded, trace |-> <<>>, thrown |-> ""]

Throw(s, msg) == [s EXCEPT !.thrown = msg]

\* the numbers of the instances of (element, className) that are still
\* referenced, from the tracked list or from the element's property
LiveIds(s, element, className) ==
  {s.created[i].id : i \in {j \in 1..Len(s.created) :
       /\ s.created[j].element_ = element
       /\ s.created[j].mdlComponentConfigInternal_.className = className}}
    \cup {s.props[element][className]}

\* the identity of a newly constructed object (its element, its logical name
\* and a number): distinct from every object still referenced
FreshId(s, element, className) ==
  CHOOSE k \in 1..(Cardinality(LiveIds(s, element, className)) + 1) :
    k \notin LiveIds(s, element, className)

\* -------------------------------------------------------------- observation
\* the tracked instances whose element_ is e, in tracking order
RECURSIVE trackedOf(_, _)
trackedOf(created, e) ==
  IF Len(created) = 0 THEN <<>>
  ELSE (IF created[1].element_ = e THEN <<created[1]>> ELSE <<>>)
         \o trackedOf(Tail(created), e)

\* one entry of the trace: what happened, on which element, and what the
\* element looked like at that moment
Entry(s, kind, element, name, cb, id) ==
  [kind |-> kind, target |-> element, name |-> name, cb |-> cb, id |-> id,
   attr |-> s.attr[element],
   tracked |-> trackedOf(s.created, element),
   exposed |-> s.props[element]]

Log(s, kind, element, name, cb, id) ==
  [s EXCEPT !.trace = Append(@, Entry(s, kind, element, name, cb, id))]

\* --------------------------------------------------------- the handler's code
ErrInvalidUpgrade == "Invalid argument provided to upgrade MDL element."
ErrUnregistered == "Unable to find a registered component for the given class."
ErrCssClass == "The provided cssClass has already been registered"
ErrClassName == "The provided className has already been registered"
ErrReserved == "MDL component classes must not have mdlComponentConfigInternal_ defined as a property."
ErrInvalidDowngrade == "Invalid argument provided to downgrade MDL nodes."
ErrConstructor == "raised by the widget constructor"
ErrNullAttr == "TypeError: getAttribute('data-upgraded') is null"
ErrNoClassList == "TypeError: element.classList is undefined"

\* the slot of the first descriptor whose className is name, 0 for `false`
findIndex(reg, name) ==
  IF \E i \in 1..Len(reg) : reg[i].className = name
  THEN CHOOSE i \in 1..Len(reg) :
         reg[i].className = name /\ \A j \in 1..(i-1) : reg[j].className # name
  ELSE 0

NoReplace == [defined |-> FALSE, config |-> <<>>]
Replace(config) == [defined |-> TRUE, config |-> config]

\* findRegisteredClass_(name, optReplace): the registry afterwards and the slot found
findRegisteredClass_(reg, name, optReplace) ==
  LET i == findIndex(reg, name)
  IN IF i = 0 THEN [reg |-> reg, found |-> 0]
     ELSE IF optReplace.defined
          THEN [reg |-> [reg EXCEPT ![i] = optReplace.config], found |-> i]
          ELSE [reg |-> reg, found |-> i]

\* getUpgradedListOfElement_ that never reads the attribute
getUpgradedListDefault(s, element) == << <<>> >>

getUpgradedListOfElement_(s, element) ==
  LET dataUpgradedAttr == s.attr[element]
  IN IF dataUpgradedAttr.isNull THEN << <<>> >> ELSE split(dataUpgradedAttr.str)

\* isElementUpgraded_ that finds nothing
isElementUpgradedNever(s, element, jsClass) == FALSE

isElementUpgraded_(s, element, jsClass) ==
  LET upgradedList == getUpgradedListOfElement_(s, element)
  IN indexOf(upgradedList, jsClass) # -1

\* an argument of upgradeElements or downgradeElements: one node, an Array of
\* nodes, a live collection of nodes, or something else
OneNode(x) == [kind |-> "Node", items |-> <<x>>]
Array(items) == [kind |-> "Array", items |-> items]
NodeList(items) == [kind |-> "NodeList", items |-> items]
HTMLCollection(items) == [kind |-> "HTMLCollection", items |-> items]
Other == [kind |-> "Other", items |-> <<>>]

RECURSIVE upgradeElementInternal(_, _, _)
RECURSIVE downgradeNodesInternal(_, _)

\* componentHandler.upgradeElement, which the load listener may have replaced
upgradeElement(s, element, optJsClass) ==
  IF s.disabled THEN s ELSE upgradeElementInternal(s, element, optJsClass)

\* componentHandler.downgradeElements
downgradeElements(s, nodes) == downgradeNodesInternal(s, nodes)

\* element.dispatchEvent(createEvent_(eventType, true, cancelable)): the
\* listeners of the element run before dispatchEvent returns
dispatchEvent(s, element, eventType, name, id) ==
  LET s1 == Log(s, eventType, element, name, "", id)
  IN IF eventType = "mdl-componentupgraded" /\ element \in s1.onUpgraded
     THEN upgradeElement(s1, element, Undefined)
     ELSE IF eventType = "mdl-componentdowngraded" /\ element \in s1.onDowngraded
     THEN downgradeElements(s1, OneNode(element))
     ELSE s1

\* defaultPrevented never read
defaultPreventedIgnored(s, element, cancelable) == FALSE

\* whether a listener of the element cancels the event
defaultPrevented(s, element, cancelable) == cancelable /\ element \in s.preventers

\* callback(element): cbUpgrade is
\* function (element) { componentHandler.upgradeElement(element); }
\* and the other callbacks leave the handler alone
invoke(s, callback, element) ==
  IF callback = "cbUpgrade" THEN upgradeElement(s, element, Undefined) ELSE s

\* the callbacks of the descriptor invoked last first
RECURSIVE runCallbacksBackwards(_, _, _, _, _)
runCallbacksBackwards(s, callbacks, element, name, j) ==
  IF j > Len(callbacks) \/ s.thrown # "" THEN s
  ELSE LET callback == callbacks[Len(callbacks) + 1 - j]
       IN runCallbacksBackwards(invoke(Log(s, "callback", element, name, callback, 0),
                                       callback, element),
                                callbacks, element, name, j + 1)

\* registeredClass.callbacks[j](element) for every j
RECURSIVE runCallbacks(_, _, _, _, _)
runCallbacks(s, callbacks, element, name, j) ==
  IF j > Len(callbacks) \/ s.thrown # "" THEN s
  ELSE runCallbacks(invoke(Log(s, "callback", element, name, callbacks[j], 0),
                         callbacks[j], element),
                    callbacks, element, name, j + 1)

\* new registeredClass.classConstructor(element)
constructorRaises(classConstructor) == classConstructor = "Throwing"

\* the descriptor an instance refers to; its callbacks, the one field that
\* changes after registration, are always read from registeredComponents_
Ref(d) == [classConstructor |-> d.classConstructor, className |-> d.className,
           cssClass |-> d.cssClass, widget |-> d.widget]

\* the loop of upgradeElementInternal skipping a descriptor that was not found
RECURSIVE upgradeLoopSkipsMissing(_, _, _, _, _)
upgradeLoopSkipsMissing(s, element, upgradedList, classesToUpgrade, i) ==
  IF i > Len(classesToUpgrade) \/ s.thrown # "" THEN s
  ELSE LET registeredClass == classesToUpgrade[i]
       IN IF registeredClass = 0
          THEN upgradeLoopSkipsMissing(
                 dispatchEvent(s, element, "mdl-componentupgraded", <<>>, 0),
                 element, upgradedList, classesToUpgrade, i + 1)
          ELSE
            LET d == s.reg[registeredClass]
                list2 == Append(upgradedList, d.className)
                s1 == [s EXCEPT !.attr[element] = Attr(join(list2))]
                id == FreshId(s1, element, d.className)
                s2 == Log(s1, "construct", element, d.className, "", id)
            IN IF constructorRaises(d.classConstructor) THEN Throw(s2, ErrConstructor)
               ELSE
                 LET instance == [id |-> id, element_ |-> element,
                                  mdlComponentConfigInternal_ |-> Ref(d)]
                     s3 == [s2 EXCEPT !.created = Append(@, instance)]
                     s4 == runCallbacks(s3, d.callbacks, element, d.className, 1)
                     s5 == IF s4.thrown = "" /\ Truthy(d.widget)
                           THEN [s4 EXCEPT !.props[element][d.className] = id]
                           ELSE s4
                     s6 == IF s4.thrown = ""
                           THEN dispatchEvent(s5, element, "mdl-componentupgraded", <<>>, 0)
                           ELSE s4
                 IN upgradeLoopSkipsMissing(s6, element, list2, classesToUpgrade, i + 1)

\* the loop of upgradeElementInternal without setAttribute('data-upgraded')
RECURSIVE upgradeLoopNoMarker(_, _, _, _, _)
upgradeLoopNoMarker(s, element, upgradedList, classesToUpgrade, i) ==
  IF i > Len(classesToUpgrade) \/ s.thrown # "" THEN s
  ELSE LET registeredClass == classesToUpgrade[i]
       IN IF registeredClass = 0 THEN Throw(s, ErrUnregistered)
          ELSE
            LET d == s.reg[registeredClass]
                id == FreshId(s, element, d.className)
                s2 == Log(s, "construct", element, d.className, "", id)
            IN IF constructorRaises(d.classConstructor) THEN Throw(s2, ErrConstructor)
               ELSE
                 LET instance == [id |-> id, element_ |-> element,
                                  mdlComponentConfigInternal_ |-> Ref(d)]
                     s3 == [s2 EXCEPT !.created = Append(@, instance)]
                     s4 == runCallbacks(s3, d.callbacks, element, d.className, 1)
                     s5 == IF s4.thrown = "" /\ Truthy(d.widget)
                           THEN [s4 EXCEPT !.props[element][d.className] = id]
                           ELSE s4
                     s6 == IF s4.thrown = ""
                           THEN dispatchEvent(s5, element, "mdl-componentupgraded", <<>>, 0)
                           ELSE s4
                 IN upgradeLoopNoMarker(s6, element, upgradedList, classesToUpgrade, i + 1)

\* the loop of upgradeElementInternal exposing the instance before the callbacks run
RECURSIVE upgradeLoopExposesFirst(_, _, _, _, _)
upgradeLoopExposesFirst(s, element, upgradedList, classesToUpgrade, i) ==
  IF i > Len(classesToUpgrade) \/ s.thrown # "" THEN s
  ELSE LET registeredClass == classesToUpgrade[i]
       IN IF registeredClass = 0 THEN Throw(s, ErrUnregistered)
          ELSE
            LET d == s.reg[registeredClass]
                list2 == Append(upgradedList, d.className)
                s1 == [s EXCEPT !.attr[element] = Attr(join(list2))]
                id == FreshId(s1, element, d.className)
                s2 == Log(s1, "construct", element, d.className, "", id)
            IN IF constructorRaises(d.classConstructor) THEN Throw(s2, ErrConstructor)
               ELSE
                 LET instance == [id |-> id, element_ |-> element,
                                  mdlComponentConfigInternal_ |-> Ref(d)]
                     s3 == [s2 EXCEPT !.created = Append(@, instance)]
                     s4 == IF Truthy(d.widget)
                           THEN [s3 EXCEPT !.props[element][d.className] = id]
                           ELSE s3
                     s5 == runCallbacks(s4, d.callbacks, element, d.className, 1)
                     s6 == IF s5.thrown = ""
                           THEN dispatchEvent(s5, element, "mdl-componentupgraded", <<>>, 0)
                           ELSE s5
                 IN upgradeLoopExposesFirst(s6, element, list2, classesToUpgrade, i + 1)

\* the loop of upgradeElementInternal with the "upgraded" event dispatched
\* once after the loop instead of once per descriptor
RECURSIVE upgradeLoopOneEvent(_, _, _, _, _)
upgradeLoopOneEvent(s, element, upgradedList, classesToUpgrade, i) ==
  IF s.thrown # "" THEN s
  ELSE IF i > Len(classesToUpgrade)
  THEN dispatchEvent(s, element, "mdl-componentupgraded", <<>>, 0)
  ELSE LET registeredClass == classesToUpgrade[i]
       IN IF registeredClass = 0 THEN Throw(s, ErrUnregistered)
          ELSE
            LET d == s.reg[registeredClass]
                list2 == Append(upgradedList, d.className)
                s1 == [s EXCEPT !.attr[element] = Attr(join(list2))]
                id == FreshId(s1, element, d.className)
                s2 == Log(s1, "construct", element, d.className, "", id)
            IN IF constructorRaises(d.classConstructor) THEN Throw(s2, ErrConstructor)
               ELSE
                 LET instance == [id |-> id, element_ |-> element,
                                  mdlComponentConfigInternal_ |-> Ref(d)]
                     s3 == [s2 EXCEPT !.created = Append(@, instance)]
                     s4 == runCallbacks(s3, d.callbacks, element, d.className, 1)
                     s5 == IF s4.thrown = "" /\ Truthy(d.widget)
                           THEN [s4 EXCEPT !.props[element][d.className] = id]
                           ELSE s4
                 IN upgradeLoopOneEvent(s5, element, list2, classesToUpgrade, i + 1)

\* the loop of upgradeElementInternal persisting the logical name after the
\* constructor returned
RECURSIVE upgradeLoopMarksAfterConstructor(_, _, _, _, _)
upgradeLoopMarksAfterConstructor(s, element, upgradedList, classesToUpgrade, i) ==
  IF i > Len(classesToUpgrade) \/ s.thrown # "" THEN s
  ELSE LET registeredClass == classesToUpgrade[i]
       IN IF registeredClass = 0 THEN Throw(s, ErrUnregistered)
          ELSE
            LET d == s.reg[registeredClass]
                list2 == Append(upgradedList, d.className)
                id == FreshId(s, element, d.className)
                s1 == Log(s, "construct", element, d.className, "", id)
            IN IF constructorRaises(d.classConstructor) THEN Throw(s1, ErrConstructor)
               ELSE
                 LET instance == [id |-> id, element_ |-> element,
                                  mdlComponentConfigInternal_ |-> Ref(d)]
                     s2 == [s1 EXCEPT !.attr[element] = Attr(join(list2))]
                     s3 == [s2 EXCEPT !.created = Append(@, instance)]
                     s4 == runCallbacks(s3, d.callbacks, element, d.className, 1)
                     s5 == IF s4.thrown = "" /\ Truthy(d.widget)
                           THEN [s4 EXCEPT !.props[element][d.className] = id]
                           ELSE s4
                     s6 == IF s4.thrown = ""
                           THEN dispatchEvent(s5, element, "mdl-componentupgraded", <<>>, 0)
                           ELSE s4
                 IN upgradeLoopMarksAfterConstructor(s6, element, list2, classesToUpgrade, i + 1)

\* the loop over classesToUpgrade of upgradeElementInternal
RECURSIVE upgradeLoop(_, _, _, _, _)
upgradeLoop(s, element, upgradedList, classesToUpgrade, i) ==
  IF i > Len(classesToUpgrade) \/ s.thrown # "" THEN s
  ELSE LET registeredClass == classesToUpgrade[i]
       IN IF registeredClass = 0 THEN Throw(s, ErrUnregistered)
          ELSE
            LET d == s.reg[registeredClass]
                list2 == Append(upgradedList, d.className)
                s1 == [s EXCEPT !.attr[element] = Attr(join(list2))]
                id == FreshId(s1, element, d.className)
                s2 == Log(s1, "construct", element, d.className, "", id)
            IN IF constructorRaises(d.classConstructor) THEN Throw(s2, ErrConstructor)
               ELSE
                 LET instance == [id |-> id, element_ |-> element,
                                  mdlComponentConfigInternal_ |-> Ref(d)]
                     s3 == [s2 EXCEPT !.created = Append(@, instance)]
                     s4 == runCallbacks(s3, d.callbacks, element, d.className, 1)
                     s5 == IF s4.thrown = "" /\ Truthy(d.widget)
                           THEN [s4 EXCEPT !.props[element][d.className] = id]
                           ELSE s4
                     s6 == IF s4.thrown = ""
                           THEN dispatchEvent(s5, element, "mdl-componentupgraded", <<>>, 0)
                           ELSE s4
                 IN upgradeLoop(s6, element, list2, classesToUpgrade, i + 1)

\* the forEach of upgradeElementInternal putting each selected descriptor first
RECURSIVE selectClassesLastFirst(_, _, _, _)
selectClassesLastFirst(s, element, classesToUpgrade, k) ==
  IF k > Len(s.reg) THEN classesToUpgrade
  ELSE LET component == s.reg[k]
       IN selectClassesLastFirst(s, element,
            IF /\ component.cssClass \in classList(element)
               /\ indexOf(classesToUpgrade, k) = -1
               /\ ~isElementUpgraded_(s, element, component.className)
            THEN <<k>> \o classesToUpgrade ELSE classesToUpgrade,
            k + 1)

\* the forEach of upgradeElementInternal selecting a descriptor whatever the
\* classes of the element
RECURSIVE selectClassesAnyClass(_, _, _, _)
selectClassesAnyClass(s, element, classesToUpgrade, k) ==
  IF k > Len(s.reg) THEN classesToUpgrade
  ELSE LET component == s.reg[k]
       IN selectClassesAnyClass(s, element,
            IF /\ indexOf(classesToUpgrade, k) = -1
               /\ ~isElementUpgraded_(s, element, component.className)
            THEN Append(classesToUpgrade, k) ELSE classesToUpgrade,
            k + 1)

\* the forEach over registeredComponents_ that selects the descriptors to apply
RECURSIVE selectClasses(_, _, _, _)
selectClasses(s, element, classesToUpgrade, k) ==
  IF k > Len(s.reg) THEN classesToUpgrade
  ELSE LET component == s.reg[k]
       IN selectClasses(s, element,
            IF /\ component.cssClass \in classList(element)
               /\ indexOf(classesToUpgrade, k) = -1
               /\ ~isElementUpgraded_(s, element, component.className)
            THEN Append(classesToUpgrade, k) ELSE classesToUpgrade,
            k + 1)

\* classList.contains(component.cssClass), in the callback of the forEach:
\* it runs once a descriptor is registered, and raises when classList is undefined
containsRaises(s) == Len(s.reg) > 0 /\ ~HasClassList(s.host)

IsElement(x) == x \in Elements
IsNode(x) == x \in Nodes

\* upgradeElementInternal without the isElementUpgraded_ check for a given class
upgradeElementInternalNoCheck(s, element, optJsClass) ==
  IF s.thrown # "" THEN s
  ELSE IF ~IsElement(element) THEN Throw(s, ErrInvalidUpgrade)
  ELSE
    LET s1 == dispatchEvent(s, element, "mdl-componentupgrading", <<>>, 0)
    IN IF defaultPrevented(s1, element, TRUE) THEN s1
       ELSE
         LET upgradedList == getUpgradedListOfElement_(s1, element)
             byClassList == ~optJsClass.defined \/ optJsClass.str = <<>>
             classesToUpgrade ==
               IF byClassList
               THEN selectClasses(s1, element, <<>>, 1)
               ELSE <<findRegisteredClass_(s1.reg, optJsClass.str, NoReplace).found>>
         IN IF byClassList /\ containsRaises(s1)
            THEN Throw(s1, ErrNoClassList)
            ELSE upgradeLoop(s1, element, upgradedList, classesToUpgrade, 1)

\* upgradeElementInternal returning on an argument that is no Element
upgradeElementInternalSilent(s, element, optJsClass) ==
  IF s.thrown # "" \/ ~IsElement(element) THEN s
  ELSE
    LET s1 == dispatchEvent(s, element, "mdl-componentupgrading", <<>>, 0)
    IN IF defaultPrevented(s1, element, TRUE) THEN s1
       ELSE
         LET upgradedList == getUpgradedListOfElement_(s1, element)
             byClassList == ~optJsClass.defined \/ optJsClass.str = <<>>
             classesToUpgrade ==
               IF byClassList
               THEN selectClasses(s1, element, <<>>, 1)
               ELSE IF ~isElementUpgraded_(s1, element, optJsClass.str)
               THEN <<findRegisteredClass_(s1.reg, optJsClass.str, NoReplace).found>>
               ELSE <<>>
         IN IF byClassList /\ containsRaises(s1)
            THEN Throw(s1, ErrNoClassList)
            ELSE upgradeLoop(s1, element, upgradedList, classesToUpgrade, 1)

upgradeElementInternal(s, element, optJsClass) ==
  IF s.thrown # "" THEN s
  ELSE IF ~IsElement(element) THEN Throw(s, ErrInvalidUpgrade)
  ELSE
    LET s1 == dispatchEvent(s, element, "mdl-componentupgrading", <<>>, 0)
    IN IF defaultPrevented(s1, element, TRUE) THEN s1
       ELSE
         LET upgradedList == getUpgradedListOfElement_(s1, element)
             byClassList == ~optJsClass.defined \/ optJsClass.str = <<>>
             classesToUpgrade ==
               IF byClassList
               THEN selectClasses(s1, element, <<>>, 1)
               ELSE IF ~isElementUpgraded_(s1, element, optJsClass.str)
               THEN <<findRegisteredClass_(s1.reg, optJsClass.str, NoReplace).found>>
               ELSE <<>>
         IN IF byClassList /\ containsRaises(s1)
            THEN Throw(s1, ErrNoClassList)
            ELSE upgradeLoop(s1, element, upgradedList, classesToUpgrade, 1)

\* upgradeElementInternal(elements[n], jsClass) for every n
RECURSIVE upgradeEach(_, _, _, _)
upgradeEach(s, elements, jsClass, n) ==
  IF n > Len(elements) \/ s.thrown # "" THEN s
  ELSE upgradeEach(upgradeElementInternal(s, elements[n], jsClass), elements, jsClass, n + 1)

RECURSIVE upgradeElementsInternal(_, _)

\* the for loop of upgradeElementsInternal leaving out the children of an
\* element whose upgrade was cancelled
RECURSIVE upgradeElementsLoopSkipsChildren(_, _, _)
upgradeElementsLoopSkipsChildren(s, elements, i) ==
  IF i > Len(elements) \/ s.thrown # "" THEN s
  ELSE LET element == elements[i]
       IN IF IsElement(element)
          THEN LET s1 == upgradeElementInternal(s, element, Undefined)
                   s2 == IF /\ s1.thrown = "" /\ Len(children(element)) > 0
                            /\ element \notin s.preventers
                         THEN upgradeElementsInternal(s1, HTMLCollection(children(element)))
                         ELSE s1
               IN upgradeElementsLoopSkipsChildren(s2, elements, i + 1)
          ELSE upgradeElementsLoopSkipsChildren(s, elements, i + 1)

\* the for loop of upgradeElementsInternal over the normalised list
RECURSIVE upgradeElementsLoop(_, _, _)
upgradeElementsLoop(s, elements, i) ==
  IF i > Len(elements) \/ s.thrown # "" THEN s
  ELSE LET element == elements[i]
       IN IF IsElement(element)
          THEN LET s1 == upgradeElementInternal(s, element, Undefined)
                   s2 == IF s1.thrown = "" /\ Len(children(element)) > 0
                         THEN upgradeElementsInternal(s1, HTMLCollection(children(element)))
                         ELSE s1
               IN upgradeElementsLoop(s2, elements, i + 1)
          ELSE upgradeElementsLoop(s, elements, i + 1)

\* Array.isArray, instanceof Element, Array.prototype.slice.call
normalise(elements) ==
  IF elements.kind = "Array" THEN elements.items
  ELSE IF elements.kind = "Node"
       THEN (IF IsElement(elements.items[1]) THEN <<elements.items[1]>> ELSE <<>>)
       ELSE elements.items

\* upgradeElementsInternal that does not descend into the children
upgradeElementsFlat(s, elements) == upgradeEach(s, SelectSeq(normalise(elements), IsElement), Undefined, 1)

upgradeElementsInternal(s, elements) == upgradeElementsLoop(s, normalise(elements), 1)

\* document.querySelectorAll('.' + cssClass)
querySelectorAll(cssClass) ==
  SelectSeq(DocumentOrder, LAMBDA e : cssClass.defined /\ cssClass.str \in classList(e))

\* upgradeDomInternal with at least one argument
upgradeDomFor(s, optJsClass, optCssClass) ==
  LET jsClass == optJsClass
      registeredClass ==
        IF optCssClass.defined THEN 0
        ELSE findRegisteredClass_(s.reg, jsClass.str, NoReplace).found
      cssClass ==
        IF ~optCssClass.defined /\ registeredClass # 0
        THEN Def(s.reg[registeredClass].cssClass)
        ELSE optCssClass
  IN upgradeEach(s, querySelectorAll(cssClass), jsClass, 1)

RECURSIVE upgradeDomAll(_, _)
upgradeDomAll(s, i) ==
  IF i > Len(s.reg) \/ s.thrown # "" THEN s
  ELSE upgradeDomAll(
         upgradeDomFor(s, Def(s.reg[i].className), Def(s.reg[i].cssClass)), i + 1)

upgradeDomInternal(s, optJsClass, optCssClass) ==
  IF ~optJsClass.defined /\ ~optCssClass.defined
  THEN upgradeDomAll(s, 1)
  ELSE upgradeDomFor(s, optJsClass, optCssClass)

\* upgradeAllRegisteredInternal's loop going through the registry backwards
RECURSIVE upgradeAllLoopBackwards(_, _)
upgradeAllLoopBackwards(s, n) ==
  IF n > Len(s.reg) \/ s.thrown # "" THEN s
  ELSE upgradeAllLoopBackwards(
         upgradeDomInternal(s, Def(s.reg[Len(s.reg) + 1 - n].className), Undefined), n + 1)

RECURSIVE upgradeAllLoop(_, _)
upgradeAllLoop(s, n) ==
  IF n > Len(s.reg) \/ s.thrown # "" THEN s
  ELSE upgradeAllLoop(upgradeDomInternal(s, Def(s.reg[n].className), Undefined), n + 1)

\* upgradeAllRegisteredInternal stopping after the first descriptor
upgradeAllRegisteredOnlyFirst(s) ==
  IF Len(s.reg) = 0 THEN s
  ELSE upgradeDomInternal(s, Def(s.reg[1].className), Undefined)

upgradeAllRegisteredInternal(s) == upgradeAllLoop(s, 1)

\* duplicateError without the check of className
RECURSIVE duplicateErrorCssOnly(_, _, _)
duplicateErrorCssOnly(reg, newConfig, i) ==
  IF i > Len(reg) THEN ""
  ELSE IF reg[i].cssClass = newConfig.cssClass THEN ErrCssClass
  ELSE duplicateErrorCssOnly(reg, newConfig, i + 1)

\* the error the forEach of registerInternal raises, "" if none
RECURSIVE duplicateError(_, _, _)
duplicateError(reg, newConfig, i) ==
  IF i > Len(reg) THEN ""
  ELSE IF reg[i].cssClass = newConfig.cssClass THEN ErrCssClass
  ELSE IF reg[i].className = newConfig.className THEN ErrClassName
  ELSE duplicateError(reg, newConfig, i + 1)

\* config.constructor.prototype.hasOwnProperty(componentConfigProperty_)
hasReservedProperty(classConstructor) == classConstructor = "Reserved"

\* registerInternal appending the descriptor before the checks
registerInternalPushFirst(s, config) ==
  LET newConfig == [classConstructor |-> config.constructor,
                    className |-> config.classAsString,
                    cssClass |-> config.cssClass,
                    widget |-> IF config.widget = "undefined" THEN "true"
                               ELSE Or(config.widget, config.widget),
                    callbacks |-> <<>>]
      dup == duplicateError(s.reg, newConfig, 1)
      s1 == [s EXCEPT !.reg = Append(@, newConfig)]
  IN IF dup # "" THEN Throw(s1, dup)
     ELSE IF hasReservedProperty(config.constructor) THEN Throw(s1, ErrReserved)
     ELSE s1

\* registerInternal setting the widget flag whatever config.widget is
registerInternalWidgetTrue(s, config) ==
  LET newConfig == [classConstructor |-> config.constructor,
                    className |-> config.classAsString,
                    cssClass |-> config.cssClass,
                    widget |-> "true",
                    callbacks |-> <<>>]
      dup == duplicateError(s.reg, newConfig, 1)
  IN IF dup # "" THEN Throw(s, dup)
     ELSE IF hasReservedProperty(config.constructor) THEN Throw(s, ErrReserved)
     ELSE [s EXCEPT !.reg = Append(@, newConfig)]

\* registerInternal without the forEach that rejects duplicates
registerInternalReplaces(s, config) ==
  LET widgetMissing == config.widget = "undefined"
      widget == IF ~widgetMissing THEN Or(config.widget, config.widget) ELSE "true"
      newConfig == [classConstructor |-> config.constructor,
                    className |-> config.classAsString,
                    cssClass |-> config.cssClass,
                    widget |-> widget,
                    callbacks |-> <<>>]
  IN IF hasReservedProperty(config.constructor) THEN Throw(s, ErrReserved)
     ELSE LET found == findRegisteredClass_(s.reg, config.classAsString, Replace(newConfig))
          IN IF found.found = 0
             THEN [s EXCEPT !.reg = Append(@, newConfig)]
             ELSE [s EXCEPT !.reg = found.reg]

registerInternal(s, config) ==
  LET widgetMissing == config.widget = "undefined"
      widget == IF ~widgetMissing THEN Or(config.widget, config.widget) ELSE "true"
      newConfig == [classConstructor |-> config.constructor,
                    className |-> config.classAsString,
                    cssClass |-> config.cssClass,
                    widget |-> widget,
                    callbacks |-> <<>>]
      dup == duplicateError(s.reg, newConfig, 1)
  IN IF dup # "" THEN Throw(s, dup)
     ELSE IF hasReservedProperty(config.constructor) THEN Throw(s, ErrReserved)
     ELSE LET found == findRegisteredClass_(s.reg, config.classAsString, Replace(newConfig))
          IN IF found.found = 0
             THEN [s EXCEPT !.reg = Append(@, newConfig)]
             ELSE [s EXCEPT !.reg = found.reg]

\* registerUpgradedCallbackInternal falling back to the first descriptor
registerUpgradedCallbackFirst(s, jsClass, callback) ==
  LET regClass == findRegisteredClass_(s.reg, jsClass, NoReplace).found
      slot == IF regClass # 0 THEN regClass ELSE 1
  IN IF Len(s.reg) > 0
     THEN [s EXCEPT !.reg[slot].callbacks = Append(@, callback)]
     ELSE s

registerUpgradedCallbackInternal(s, jsClass, callback) ==
  LET regClass == findRegisteredClass_(s.reg, jsClass, NoReplace).found
  IN IF regClass # 0
     THEN [s EXCEPT !.reg[regClass].callbacks = Append(@, callback)]
     ELSE s

\* deconstructComponentInternal that leaves the data-upgraded attribute alone
deconstructKeepsMarker(s, component) ==
  IF s.thrown # "" THEN s
  ELSE
    LET componentIndex == indexOf(s.created, component)
        s1 == [s EXCEPT !.created = splice1(@, componentIndex)]
    IN dispatchEvent(s1, component.element_, "mdl-componentdowngraded",
                     component.mdlComponentConfigInternal_.className, component.id)

\* deconstructComponentInternal that also deletes the instance exposed on the element
deconstructDeletesProperty(s, component) ==
  IF s.thrown # "" THEN s
  ELSE
    LET componentIndex == indexOf(s.created, component)
        s1 == [s EXCEPT !.created = splice1(@, componentIndex),
                        !.props[component.element_]
                               [component.mdlComponentConfigInternal_.className] = 0]
        dataUpgradedAttr == s1.attr[component.element_]
    IN IF dataUpgradedAttr.isNull THEN Throw(s1, ErrNullAttr)
       ELSE
         LET upgrades == split(dataUpgradedAttr.str)
             componentPlace ==
               indexOfValue(upgrades,
                            Prop(component.mdlComponentConfigInternal_, "classAsString"))
             s2 == [s1 EXCEPT !.attr[component.element_] =
                                 Attr(join(splice1(upgrades, componentPlace)))]
         IN dispatchEvent(s2, component.element_, "mdl-componentdowngraded",
                          component.mdlComponentConfigInternal_.className, component.id)

deconstructComponentInternal(s, component) ==
  IF s.thrown # "" THEN s
  ELSE
    LET componentIndex == indexOf(s.created, component)
        s1 == [s EXCEPT !.created = splice1(@, componentIndex)]
        dataUpgradedAttr == s1.attr[component.element_]
    IN IF dataUpgradedAttr.isNull THEN Throw(s1, ErrNullAttr)
       ELSE
         LET upgrades == split(dataUpgradedAttr.str)
             componentPlace ==
               indexOfValue(upgrades,
                            Prop(component.mdlComponentConfigInternal_, "classAsString"))
             s2 == [s1 EXCEPT !.attr[component.element_] =
                                 Attr(join(splice1(upgrades, componentPlace)))]
         IN dispatchEvent(s2, component.element_, "mdl-componentdowngraded",
                          component.mdlComponentConfigInternal_.className, component.id)

RECURSIVE deconstructEach(_, _, _)
deconstructEach(s, components, i) ==
  IF i > Len(components) THEN s
  ELSE deconstructEach(deconstructComponentInternal(s, components[i]), components, i + 1)

\* downgradeNode without the filter on element_
downgradeNodeUnfiltered(s, node) == deconstructEach(s, s.created, 1)

\* downgradeNode deconstructing only the first tracked instance of the node
downgradeNodeFirstOnly(s, node) ==
  deconstructEach(s, SubSeq(trackedOf(s.created, node), 1,
                            Min(1, Len(trackedOf(s.created, node)))), 1)

\* createdComponents_.filter(item.element_ === node).forEach(deconstructComponentInternal)
downgradeNode(s, node) == deconstructEach(s, trackedOf(s.created, node), 1)

RECURSIVE downgradeLoop(_, _, _)
downgradeLoop(s, nodes, n) ==
  IF n > Len(nodes) \/ s.thrown # "" THEN s
  ELSE downgradeLoop(downgradeNode(s, nodes[n]), nodes, n + 1)

downgradeNodesInternal(s, nodes) ==
  IF nodes.kind \in {"Array", "NodeList"} THEN downgradeLoop(s, nodes.items, 1)
  ELSE IF nodes.kind = "Node" /\ IsNode(nodes.items[1]) THEN downgradeNode(s, nodes.items[1])
  ELSE Throw(s, ErrInvalidDowngrade)

\* ------------------------------------------------------------------- actions
Config(constructor, classAsString, cssClass, widget) ==
  [constructor |-> constructor, classAsString |-> Str(classAsString),
   cssClass |-> cssClass, widget |-> widget]

\* the configs register is tried with
Configs ==
  {Config("Widget", "LogicalA", "a", "undefined"),
   Config("Widget", "LogicalB", "b", "false"),
   Config("Throwing", "LogicalB", "b", "true"),
   Config("Widget", "LogicalA", "b", "''"),
   Config("Widget", "LogicalB", "a", "true"),
   Config("Reserved", "LogicalB", "b", "undefined")}

OptNames == {Undefined} \cup {Def(Str(n)) : n \in ClassNames}
OptCss == {Undefined} \cup {Def(c) : c \in CssClasses}

\* the lists of nodes the calls are tried on
NodeLists ==
  {OneNode(x) : x \in Nodes} \cup
  {Array(<<"div", "p">>), Array(<<TextNode, "div", "span">>),
   NodeList(<<"p", "div">>), HTMLCollection(children("div")), Other}

Init ==
  /\ registeredComponents_ = <<>>
  /\ createdComponents_ = <<>>
  /\ dataUpgraded = [e \in Elements |-> NullAttr]
  /\ elementProps = [e \in Elements |-> [n \in {Str(c) : c \in ClassNames} |-> 0]]
  /\ preventers = {}
  /\ trace = <<>>
  /\ thrown = ""
  /\ lastCall = [op |-> "none"]
  /\ calls = 0
  /\ host \in Hosts
  /\ mdlJs = FALSE
  /\ disabled = FALSE
  /\ onUpgraded = {}
  /\ onDowngraded = {}

\* the state a call leaves, whether it returned or raised
Commit(s) ==
  /\ calls < MaxCalls
  /\ calls' = calls + 1
  /\ registeredComponents_' = s.reg
  /\ createdComponents_' = s.created
  /\ dataUpgraded' = s.attr
  /\ elementProps' = s.props
  /\ trace' = s.trace
  /\ thrown' = s.thrown
  /\ UNCHANGED <<host, onUpgraded, onDowngraded>>

Register(config) ==
  /\ ~disabled
  /\ Commit(registerInternal(Cur, config))
  /\ lastCall' = [op |-> "register", config |-> config]
  /\ UNCHANGED <<preventers, mdlJs, disabled>>

RegisterUpgradedCallback(jsClass, callback) ==
  /\ \A i \in 1..Len(registeredComponents_) :
       registeredComponents_[i].className = jsClass
         => Len(registeredComponents_[i].callbacks) < MaxCallbacks
  /\ Commit(registerUpgradedCallbackInternal(Cur, jsClass, callback))
  /\ lastCall' = [op |-> "registerUpgradedCallback", jsClass |-> jsClass,
                  callback |-> callback]
  /\ UNCHANGED <<preventers, mdlJs, disabled>>

UpgradeDom(optJsClass, optCssClass) ==
  /\ Commit(upgradeDomInternal(Cur, optJsClass, optCssClass))
  /\ lastCall' = [op |-> "upgradeDom", optJsClass |-> optJsClass,
                  optCssClass |-> optCssClass]
  /\ UNCHANGED <<preventers, mdlJs, disabled>>

UpgradeElement(element, optJsClass) ==
  /\ ~disabled
  /\ Commit(upgradeElementInternal(Cur, element, optJsClass))
  /\ lastCall' = [op |-> "upgradeElement", element |-> element,
                  optJsClass |-> optJsClass]
  /\ UNCHANGED <<preventers, mdlJs, disabled>>

UpgradeElements(elements) ==
  /\ Commit(upgradeElementsInternal(Cur, elements))
  /\ lastCall' = [op |-> "upgradeElements", elements |-> elements]
  /\ UNCHANGED <<preventers, mdlJs, disabled>>

UpgradeAllRegistered ==
  /\ Commit(upgradeAllRegisteredInternal(Cur))
  /\ lastCall' = [op |-> "upgradeAllRegistered"]
  /\ UNCHANGED <<preventers, mdlJs, disabled>>

DowngradeElements(nodes) ==
  /\ Commit(downgradeNodesInternal(Cur, nodes))
  /\ lastCall' = [op |-> "downgradeElements", nodes |-> nodes]
  /\ UNCHANGED <<preventers, mdlJs, disabled>>

\* componentHandler.upgradeElement or componentHandler.register after the load
\* listener replaced it: function () {}
Dummy(property, arguments) ==
  /\ disabled
  /\ Commit(Cur)
  /\ lastCall' = [op |-> "function () {}", property |-> property, arguments |-> arguments]
  /\ UNCHANGED <<preventers, mdlJs, disabled>>

\* a feature test that every host passes
cutsTheMustardAlways(h) == TRUE

\* the feature test of the load listener; every host of Hosts has
\* document.querySelector, window.addEventListener and Array.prototype.forEach
cutsTheMustard(h) == HasClassList(h) /\ TRUE /\ TRUE /\ TRUE

\* the listener of the window's load event, which fires once
Load ==
  /\ ~mdlJs /\ ~disabled
  /\ IF cutsTheMustard(host)
     THEN /\ mdlJs' = TRUE
          /\ Commit(upgradeAllRegisteredInternal(Cur))
          /\ UNCHANGED disabled
     ELSE /\ disabled' = TRUE
          /\ Commit(Cur)
          /\ UNCHANGED mdlJs
  /\ lastCall' = [op |-> "load"]
  /\ UNCHANGED preventers

\* the page adds or removes a listener that calls preventDefault on "upgrading"
AddPreventer(element) ==
  /\ calls < MaxCalls
  /\ calls' = calls + 1
  /\ element \notin preventers
  /\ Cardinality(preventers) < MaxPreventers
  /\ preventers' = preventers \cup {element}
  /\ lastCall' = [op |-> "addEventListener", element |-> element]
  /\ trace' = <<>> /\ thrown' = ""
  /\ UNCHANGED <<registeredComponents_, createdComponents_, dataUpgraded, elementProps,
                 host, mdlJs, disabled, onUpgraded, onDowngraded>>

RemovePreventer(element) ==
  /\ calls < MaxCalls
  /\ calls' = calls + 1
  /\ element \in preventers
  /\ preventers' = preventers \ {element}
  /\ lastCall' = [op |-> "removeEventListener", element |-> element]
  /\ trace' = <<>> /\ thrown' = ""
  /\ UNCHANGED <<registeredComponents_, createdComponents_, dataUpgraded, elementProps,
                 host, mdlJs, disabled, onUpgraded, onDowngraded>>

Next ==
  \/ \E config \in Configs : Register(config)
  \/ \E n \in ClassNames, cb \in Callbacks : RegisterUpgradedCallback(Str(n), cb)
  \/ \E j \in OptNames, c \in OptCss : UpgradeDom(j, c)
  \/ \E x \in Nodes \cup {NotANode}, j \in OptNames : UpgradeElement(x, j)
  \/ \E l \in NodeLists : UpgradeElements(l)
  \/ UpgradeAllRegistered
  \/ \E l \in NodeLists : DowngradeElements(l)
  \/ \E e \in Elements : AddPreventer(e)
  \/ \E e \in Elements : RemovePreventer(e)
  \/ \E x \in Nodes \cup {NotANode}, j \in OptNames : Dummy("upgradeElement", <<x, j>>)
  \/ \E config \in Configs : Dummy("register", <<config>>)
  \/ Load

Spec == Init /\ [][Next]_vars

\* a page that listens to the handler's events and calls the handler back:
\* p carries a listener of "mdl-componentupgraded" that upgrades it or a
\* listener of "mdl-componentdowngraded" that downgrades it, and a callback
\* registered for a logical name may upgrade the element it is given
Listeners == {<<{}, {}>>, <<{"p"}, {}>>, <<{}, {"p"}>>}

InitReentrant ==
  /\ registeredComponents_ = <<>>
  /\ createdComponents_ = <<>>
  /\ dataUpgraded = [e \in Elements |-> NullAttr]
  /\ elementProps = [e \in Elements |-> [n \in {Str(c) : c \in ClassNames} |-> 0]]
  /\ preventers = {}
  /\ trace = <<>>
  /\ thrown = ""
  /\ lastCall = [op |-> "none"]
  /\ calls = 0
  /\ host \in Hosts
  /\ mdlJs = FALSE
  /\ disabled = FALSE
  /\ \E l \in Listeners : onUpgraded = l[1] /\ onDowngraded = l[2]

NextReentrant ==
  \/ Next
  \/ \E n \in ClassNames : RegisterUpgradedCallback(Str(n), "cbUpgrade")

SpecReentrant == InitReentrant /\ [][NextReentrant]_vars

\* ------------------------------------------------------------ what is claimed
\* the logical names in the data-upgraded attribute of e
Marker(attr, e) == IF attr[e].isNull THEN <<>> ELSE split(attr[e].str)

InMarker(attr, e, n) == \E i \in 1..Len(Marker(attr, e)) : Marker(attr, e)[i] = Str(n)

Occurrences(attr, e, n) ==
  Cardinality({i \in 1..Len(Marker(attr, e)) : Marker(attr, e)[i] = Str(n)})

\* the positions of the tracked instances of (e, n)
InstancesOf(created, e, n) ==
  {i \in 1..Len(created) :
     /\ created[i].element_ = e
     /\ created[i].mdlComponentConfigInternal_.className = Str(n)}

\* the positions in the trace of the entries of this kind for (e, n)
Entries(tr, kind, e, n) ==
  {i \in 1..Len(tr) : tr[i].kind = kind /\ tr[i].target = e /\ tr[i].name = Str(n)}

EntriesOfKind(tr, kind) == {i \in 1..Len(tr) : tr[i].kind = kind}

Registered(reg, n) == \E i \in 1..Len(reg) : reg[i].className = Str(n)

\* a descriptor of the registry has the marker class or the logical name of config
Clashes(reg, config) ==
  \E i \in 1..Len(reg) :
    \/ reg[i].cssClass = config.cssClass
    \/ reg[i].className = config.classAsString

\* C1: in every state the registry holds at most one descriptor per logical
\* name and at most one per marker class, and a register call whose marker
\* class or logical name an existing descriptor already has raises a fatal
\* error.
C1_RegistryUnique ==
  /\ [](\A i, j \in 1..Len(registeredComponents_) :
          i # j => /\ registeredComponents_[i].className # registeredComponents_[j].className
                   /\ registeredComponents_[i].cssClass # registeredComponents_[j].cssClass)
  /\ [][(lastCall'.op = "register" /\ Clashes(registeredComponents_, lastCall'.config))
          => thrown' \in {ErrCssClass, ErrClassName}]_vars

\* a register call was refused for its logical name, by a registry that holds a descriptor
C1_Witness ==
  /\ lastCall.op = "register"
  /\ thrown = ErrClassName
  /\ Len(registeredComponents_) >= 1

\* C2: a register call that raises leaves the registry, the tracked
\* instances, the markers and the exposed properties as they were.
C2_FailedRegisterChangesNothing ==
  [][(lastCall'.op = "register" /\ thrown' # "")
       => UNCHANGED <<registeredComponents_, createdComponents_, dataUpgraded,
                      elementProps>>]_vars

\* a register call was refused for the reserved property, with a descriptor
\* registered and an instance tracked
C2_Witness ==
  /\ lastCall.op = "register"
  /\ thrown = ErrReserved
  /\ Len(registeredComponents_) >= 1
  /\ Len(createdComponents_) >= 1

UpgradeElementCall(e, n) ==
  [op |-> "upgradeElement", element |-> e, optJsClass |-> Def(Str(n))]

DowngradeCall(e) == [op |-> "downgradeElements", nodes |-> OneNode(e)]

\* C3: when upgradeElement(e, n) has created the instance of (e, n), the
\* same call made again changes nothing: no constructor and no callback runs,
\* the registry, the markers, the tracked list and the exposed properties
\* stay as they were, and (e, n) keeps exactly one tracked instance.
C3_SecondUpgradeIsNoOp ==
  [][\A e \in Elements, n \in ClassNames :
       (/\ lastCall = UpgradeElementCall(e, n)
        /\ thrown = ""
        /\ Entries(trace, "construct", e, n) # {}
        /\ lastCall' = UpgradeElementCall(e, n))
       => /\ UNCHANGED <<registeredComponents_, createdComponents_, dataUpgraded,
                         elementProps>>
          /\ thrown' = ""
          /\ EntriesOfKind(trace', "construct") = {}
          /\ EntriesOfKind(trace', "callback") = {}
          /\ Cardinality(InstancesOf(createdComponents_', e, n)) = 1]_vars

\* upgradeElement(e, n) has just run on an element that was not cancelled and
\* was already upgraded for n, with a callback registered for n
C3_Witness ==
  /\ lastCall.op = "upgradeElement"
  /\ lastCall.optJsClass.defined
  /\ lastCall.element \in Elements \ preventers
  /\ thrown = ""
  /\ EntriesOfKind(trace, "construct") = {}
  /\ \E n \in ClassNames :
       /\ lastCall.optJsClass.str = Str(n)
       /\ InMarker(dataUpgraded, lastCall.element, n)
       /\ Cardinality(InstancesOf(createdComponents_, lastCall.element, n)) = 1
       /\ \E i \in 1..Len(registeredComponents_) :
            /\ registeredComponents_[i].className = Str(n)
            /\ Len(registeredComponents_[i].callbacks) > 0

\* C4: the tracked list never holds two instances of one (element, logical
\* name) pair.
C4_AtMostOneInstance ==
  \A e \in Elements, n \in ClassNames :
    Cardinality(InstancesOf(createdComponents_, e, n)) <= 1

\* a scan has just visited an element that holds both names and two tracked
\* instances, and has constructed nothing on it
C4_Witness ==
  /\ lastCall.op \in {"upgradeElements", "upgradeDom", "upgradeAllRegistered"}
  /\ thrown = ""
  /\ \E e \in Elements \ preventers :
       /\ \E i \in 1..Len(trace) :
            trace[i].kind = "mdl-componentupgrading" /\ trace[i].target = e
       /\ \A i \in 1..Len(trace) : ~(trace[i].kind = "construct" /\ trace[i].target = e)
       /\ \A n \in ClassNames :
            Cardinality(InstancesOf(createdComponents_, e, n)) = 1

\* C5: upgradeElement(e, n) that created the instance, followed by
\* downgradeElements(e), leaves e's marker without n and no tracked instance
\* of (e, n); and upgradeElement(e, n) made right after that downgrade
\* creates exactly one tracked instance of (e, n) again.
C5_RoundTrip ==
  /\ [][\A e \in Elements, n \in ClassNames :
          (/\ lastCall = UpgradeElementCall(e, n)
           /\ thrown = ""
           /\ Entries(trace, "construct", e, n) # {}
           /\ lastCall' = DowngradeCall(e))
          => /\ thrown' = ""
             /\ ~InMarker(dataUpgraded', e, n)
             /\ InstancesOf(createdComponents_', e, n) = {}]_vars
  /\ [][\A e \in Elements, n \in ClassNames :
          (/\ lastCall = DowngradeCall(e)
           /\ thrown = ""
           /\ Entries(trace, "mdl-componentdowngraded", e, n) # {}
           /\ ~InMarker(dataUpgraded, e, n)
           /\ e \notin preventers
           /\ lastCall' = UpgradeElementCall(e, n))
          => /\ thrown' = ""
             /\ Cardinality(Entries(trace', "construct", e, n)) = 1
             /\ InMarker(dataUpgraded', e, n)
             /\ Cardinality(InstancesOf(createdComponents_', e, n)) = 1]_vars

\* upgradeElement(e, n) has just created a second object for (e, n): the first
\* one, still exposed on the element, was downgraded before
C5_Witness ==
  /\ lastCall.op = "upgradeElement"
  /\ lastCall.optJsClass.defined
  /\ thrown = ""
  /\ \E i \in 1..Len(trace) :
       /\ trace[i].kind = "construct"
       /\ trace[i].name = lastCall.optJsClass.str
       /\ trace[i].id = 2
  /\ \E i \in 1..Len(createdComponents_) :
       /\ createdComponents_[i].element_ = lastCall.element
       /\ createdComponents_[i].mdlComponentConfigInternal_.className = lastCall.optJsClass.str
       /\ createdComponents_[i].id = 2

\* the state upgradeElements would leave if no listener cancelled "upgrading"
Uncancelled(elements) == upgradeElementsInternal([Cur EXCEPT !.preventers = {}], elements)

\* what C6 says of the cancelled element itself: nothing is constructed on
\* it, no callback runs for it, and its marker, its tracked instances and its
\* exposed properties stay as they were
CancelledElementsUntouched ==
  /\ \A i \in 1..Len(trace') :
       trace'[i].kind \in {"construct", "callback", "mdl-componentupgraded"}
         => trace'[i].target \notin preventers
  /\ \A e \in preventers :
       /\ dataUpgraded'[e] = dataUpgraded[e]
       /\ elementProps'[e] = elementProps[e]
       /\ trackedOf(createdComponents_', e) = trackedOf(createdComponents_, e)

\* every element that is not cancelled ends as the same batch would leave it
\* without any cancellation
OthersAsUncancelled ==
  LET u == Uncancelled(lastCall'.elements)
  IN \A x \in Elements \ preventers :
       /\ dataUpgraded'[x] = u.attr[x]
       /\ elementProps'[x] = u.props[x]
       /\ trackedOf(createdComponents_', x) = trackedOf(u.created, x)

CancelledCallChangesNothing ==
  (lastCall'.op = "upgradeElement" /\ lastCall'.element \in preventers)
    => /\ UNCHANGED <<registeredComponents_, createdComponents_, dataUpgraded,
                      elementProps>>
       /\ thrown' = ""
       /\ Len(trace') = 1
       /\ trace'[1].kind = "mdl-componentupgrading"

RECURSIVE PreOrder(_)
PreOrder(items) ==
  IF Len(items) = 0 THEN <<>>
  ELSE (IF items[1] \in Elements
        THEN <<items[1]>> \o PreOrder(children(items[1]))
        ELSE <<>>)
         \o PreOrder(Tail(items))

\* the targets of the entries of one kind, in the order of the trace
RECURSIVE Targets(_, _)
Targets(tr, kind) ==
  IF Len(tr) = 0 THEN <<>>
  ELSE (IF tr[1].kind = kind THEN <<tr[1].target>> ELSE <<>>) \o Targets(Tail(tr), kind)

Range(seq) == {seq[i] : i \in 1..Len(seq)}

Reverse(seq) == [i \in 1..Len(seq) |-> seq[Len(seq) + 1 - i]]

\* the (element, logical name) pairs a trace constructs
Constructed(tr) == {<<tr[i].target, tr[i].name>> : i \in EntriesOfKind(tr, "construct")}

\* the example of C7: A (marker class a) registered before B (marker class b),
\* nothing upgraded, no listener on the div or the span
ExampleOfC7 ==
  /\ Len(registeredComponents_) = 2
  /\ registeredComponents_[1].className = Str("LogicalA")
  /\ registeredComponents_[1].cssClass = "a"
  /\ registeredComponents_[2].className = Str("LogicalB")
  /\ registeredComponents_[2].cssClass = "b"
  /\ dataUpgraded["div"].isNull /\ dataUpgraded["span"].isNull
  /\ preventers \cap {"div", "span"} = {}

\* C7: an upgradeElements call that raises nothing visits the elements of
\* its list in pre-order; on every visited element that is not cancelled it
\* constructs, exactly once, each registered descriptor whose marker class
\* the element carries and whose name is not yet in the element's marker,
\* and nothing else; it constructs the same (element, name) pairs, visiting
\* in the same order, when the descriptors are registered in the reverse
\* order; and with A(.a) and B(.b) registered, upgradeElements(div) on
\* div.a > span.b leaves one LogicalA instance on the div, one LogicalB
\* instance on the span and one applied name in each marker.
C7_PreOrderExactlyOnce ==
  [][(lastCall'.op = "upgradeElements" /\ thrown' = "")
       => LET l == lastCall'.elements
              items == IF l.kind = "Node" /\ l.items[1] \notin Elements
                       THEN <<>> ELSE l.items
              reversed == upgradeElementsInternal(
                            [Cur EXCEPT !.reg = Reverse(registeredComponents_)], l)
          IN /\ Targets(trace', "mdl-componentupgrading") = PreOrder(items)
             /\ \A x \in Elements, k \in 1..Len(registeredComponents_) :
                  LET d == registeredComponents_[k]
                      n == d.className[1]
                  IN IF /\ x \in Range(PreOrder(items)) \ preventers
                        /\ d.cssClass \in classList(x)
                        /\ ~InMarker(dataUpgraded, x, n)
                     THEN /\ Cardinality(Entries(trace', "construct", x, n)) = 1
                          /\ Cardinality(InstancesOf(createdComponents_', x, n)) = 1
                          /\ Occurrences(dataUpgraded', x, n) = 1
                     ELSE Entries(trace', "construct", x, n) = {}
             /\ Constructed(reversed.trace) = Constructed(trace')
             /\ Targets(reversed.trace, "mdl-componentupgrading")
                  = Targets(trace', "mdl-componentupgrading")
             /\ (ExampleOfC7 /\ l = OneNode("div"))
                  => /\ Marker(dataUpgraded', "div") = << <<>>, Str("LogicalA") >>
                     /\ Marker(dataUpgraded', "span") = << <<>>, Str("LogicalB") >>
                     /\ trackedOf(createdComponents_', "div")
                          = <<createdComponents_'[Len(createdComponents_') - 1]>>
                     /\ trackedOf(createdComponents_', "span")
                          = <<createdComponents_'[Len(createdComponents_')]>>
                     /\ createdComponents_'[Len(createdComponents_') - 1]
                          .mdlComponentConfigInternal_.className = Str("LogicalA")
                     /\ createdComponents_'[Len(createdComponents_')]
                          .mdlComponentConfigInternal_.className = Str("LogicalB")]_vars

\* upgradeElements([div, p]) has just visited the div, its child and then p,
\* and has constructed an instance on each of the three
C7_Witness ==
  /\ lastCall.op = "upgradeElements"
  /\ thrown = ""
  /\ Targets(trace, "mdl-componentupgrading") = <<"div", "span", "p">>
  /\ Targets(trace, "construct") = <<"div", "span", "p", "p">>
  /\ Len(registeredComponents_) = 2

\* C8 as claimed: when the "downgraded" event of the instance of logical
\* name n fires on element e, e's marker does not contain n and still
\* contains every other logical name it contained just before that instance
\* was deconstructed.
C8_AsClaimed ==
  [][(lastCall'.op = "downgradeElements")
       => \A i \in EntriesOfKind(trace', "mdl-componentdowngraded") :
            LET e == trace'[i].target
                earlier == {j \in 1..(i-1) : trace'[j].target = e}
                before == IF earlier = {} THEN dataUpgraded[e]
                          ELSE trace'[CHOOSE j \in earlier : \A m \in earlier : m <= j].attr
                after == trace'[i].attr
            IN /\ trace'[i].name \notin Range(split(after.str))
               /\ \A n \in ClassNames :
                    (Str(n) # trace'[i].name /\ Str(n) \in Range(split(before.str)))
                      => Str(n) \in Range(split(after.str))]_vars

\* the nodes a downgradeElements argument names
NodesOf(nodes) ==
  IF nodes.kind \in {"Array", "NodeList", "Node"} THEN Range(nodes.items) ELSE {}

\* C9: a downgradeElements call that raises nothing removes from the
\* tracked list exactly the instances whose element is one of the given
\* nodes, keeps the others in their order, and leaves the marker of every
\* other element and the registry as they were.
C9_DowngradeFrame ==
  [][(lastCall'.op = "downgradeElements" /\ thrown' = "")
       => /\ createdComponents_' =
               SelectSeq(createdComponents_,
                         LAMBDA c : c.element_ \notin NodesOf(lastCall'.nodes))
          /\ \A x \in Elements \ NodesOf(lastCall'.nodes) :
               dataUpgraded'[x] = dataUpgraded[x]
          /\ UNCHANGED registeredComponents_]_vars

\* downgradeElements has just removed the two instances of one element and
\* left the instances of the other elements tracked
C9_Witness ==
  /\ lastCall.op = "downgradeElements"
  /\ thrown = ""
  /\ Len(trace) = 2
  /\ trace[1].target = trace[2].target
  /\ trace[1].name # trace[2].name
  /\ Len(createdComponents_) >= 2

\* C10: no data-upgraded attribute ever holds a logical name twice.
C10_NoDuplicateInMarker ==
  \A e \in Elements, n \in ClassNames : Occurrences(dataUpgraded, e, n) <= 1

\* a scan has just visited an element whose marker already held both names
\* and has added nothing to it
C10_Witness ==
  /\ lastCall.op \in {"upgradeElements", "upgradeDom", "upgradeAllRegistered"}
  /\ thrown = ""
  /\ \E e \in Elements \ preventers :
       /\ \E i \in 1..Len(trace) :
            /\ trace[i].kind = "mdl-componentupgrading"
            /\ trace[i].target = e
            /\ \A n \in ClassNames : Str(n) \in Range(split(trace[i].attr.str))
       /\ \A n \in ClassNames : Occurrences(dataUpgraded, e, n) = 1

\* the logical names in the marker of e, in order
MarkerNames(attr, e) == SelectSeq(Marker(attr, e), LAMBDA x : x # <<>>)

IsPrefix(a, b) == Len(a) <= Len(b) /\ SubSeq(b, 1, Len(a)) = a

\* the logical names of the descriptors that qualify for e, in the order of
\* the registry: e has the marker class and its marker does not hold the name
Qualifying(reg, attr, e) ==
  LET q == SelectSeq(reg, LAMBDA d :
             /\ d.cssClass \in classList(e)
             /\ \A i \in 1..Len(Marker(attr, e)) : Marker(attr, e)[i] # d.className)
  IN [i \in 1..Len(q) |-> q[i].className]

\* the names of the entries of this kind in the trace, in order
RECURSIVE Names(_, _)
Names(tr, kind) ==
  IF Len(tr) = 0 THEN <<>>
  ELSE (IF tr[1].kind = kind THEN <<tr[1].name>> ELSE <<>>) \o Names(Tail(tr), kind)

\* the logical names of a list of instances, in order
TrackedNames(created) ==
  [i \in 1..Len(created) |-> created[i].mdlComponentConfigInternal_.className]

\* the logical names of the registry, in order
RegisteredNames(reg) == [i \in 1..Len(reg) |-> reg[i].className]

\* the instances the step appended to the tracked list
NewInstances ==
  SubSeq(createdComponents_', Len(createdComponents_) + 1, Len(createdComponents_'))

\* C11: the order of the registry is the order of registration (a register
\* call that succeeds appends its descriptor and moves no other), and
\* upgradeElement(e) without a logical name applies the qualifying
\* descriptors in that order: the constructors run, the instances are
\* appended to the tracked list, and the names are appended to e's marker,
\* in the order of the registry; all of them when the call is not cancelled
\* and raises nothing, a prefix of them otherwise.
C11_RegistrationOrder ==
  /\ [][(lastCall'.op = "register" /\ thrown' = "")
          => /\ Len(registeredComponents_') = Len(registeredComponents_) + 1
             /\ IsPrefix(registeredComponents_, registeredComponents_')
             /\ registeredComponents_'[Len(registeredComponents_')].className
                  = lastCall'.config.classAsString]_vars
  /\ [][\A e \in Elements :
          (lastCall' = [op |-> "upgradeElement", element |-> e, optJsClass |-> Undefined])
          => LET q == Qualifying(registeredComponents_, dataUpgraded, e)
                 built == Names(trace', "construct")
             IN /\ IsPrefix(built, q)
                /\ IsPrefix(createdComponents_, createdComponents_')
                /\ \A i \in 1..Len(NewInstances) : NewInstances[i].element_ = e
                /\ IsPrefix(TrackedNames(NewInstances), built)
                /\ Len(NewInstances) >= Len(built) - 1
                /\ MarkerNames(dataUpgraded', e) = MarkerNames(dataUpgraded, e) \o built
                /\ (thrown' = "" /\ e \notin preventers)
                     => (built = q /\ TrackedNames(NewInstances) = q)]_vars

\* upgradeElement(p) has just applied LogicalB and then LogicalA, which were
\* registered in that order
C11_Witness ==
  /\ lastCall = [op |-> "upgradeElement", element |-> "p", optJsClass |-> Undefined]
  /\ thrown = ""
  /\ RegisteredNames(registeredComponents_) = <<Str("LogicalB"), Str("LogicalA")>>
  /\ Names(trace, "construct") = <<Str("LogicalB"), Str("LogicalA")>>
  /\ MarkerNames(dataUpgraded, "p") = <<Str("LogicalB"), Str("LogicalA")>>
  /\ TrackedNames(createdComponents_) = <<Str("LogicalB"), Str("LogicalA")>>

\* the marker of e, the tracked list, the exposed properties and the registry
\* are as they were
UpgradeChangedNothing ==
  UNCHANGED <<dataUpgraded, createdComponents_, elementProps, registeredComponents_>>

\* C12 as claimed: upgradeElement(e, n) with a logical name n that is not
\* registered raises "Unable to find a registered component for the given
\* class." and leaves the markers, the tracked list and the registry as they
\* were.
C12_AsClaimed ==
  [][\A e \in Elements, n \in ClassNames :
       (lastCall' = UpgradeElementCall(e, n) /\ ~Registered(registeredComponents_, n))
       => (thrown' = ErrUnregistered /\ UpgradeChangedNothing)]_vars

\* C12: upgradeElement(e, n) with a logical name n that is not registered
\* leaves the markers, the tracked list, the exposed properties and the
\* registry as they were and constructs nothing; it raises "Unable to find a
\* registered component for the given class." unless a listener cancels the
\* "upgrading" event of e, and then it raises nothing.
C12_UnregisteredName ==
  [][\A e \in Elements, n \in ClassNames :
       (lastCall' = UpgradeElementCall(e, n) /\ ~Registered(registeredComponents_, n))
       => /\ UpgradeChangedNothing
          /\ EntriesOfKind(trace', "construct") = {}
          /\ Names(trace', "mdl-componentupgrading") = << <<>> >>
          /\ thrown' = (IF e \in preventers THEN "" ELSE ErrUnregistered)]_vars

\* upgradeElement(e, n) has just raised for a name that is not registered,
\* while another name is registered and e holds an instance of it
C12_Witness ==
  /\ lastCall.op = "upgradeElement"
  /\ lastCall.optJsClass.defined
  /\ thrown = ErrUnregistered
  /\ \A i \in 1..Len(registeredComponents_) :
       registeredComponents_[i].className # lastCall.optJsClass.str
  /\ Len(registeredComponents_) = 1
  /\ \E i \in 1..Len(createdComponents_) : createdComponents_[i].element_ = lastCall.element

\* C13: upgradeElement with an argument that is no Element (a text node, or
\* no node at all) raises "Invalid argument provided to upgrade MDL
\* element.", whatever the logical name and whatever the state: no event is
\* dispatched, no constructor and no callback runs, and the markers, the
\* tracked list, the exposed properties and the registry are as they were.
C13_InvalidElement ==
  [][(lastCall'.op = "upgradeElement" /\ lastCall'.element \notin Elements)
       => /\ thrown' = ErrInvalidUpgrade
          /\ trace' = <<>>
          /\ UpgradeChangedNothing]_vars

\* upgradeElement has just raised on the text node, asked for a name that is
\* registered, with instances tracked and a cancelling listener in the page
C13_Witness ==
  /\ lastCall.op = "upgradeElement"
  /\ lastCall.element = TextNode
  /\ lastCall.optJsClass.defined
  /\ \E i \in 1..Len(registeredComponents_) :
       registeredComponents_[i].className = lastCall.optJsClass.str
  /\ thrown = ErrInvalidUpgrade
  /\ Len(createdComponents_) >= 1
  /\ preventers # {}

\* C14: registerUpgradedCallback(n, cb) never raises and leaves the markers,
\* the tracked list and the exposed properties as they were; the registry
\* keeps its length and every descriptor but the one named n, and the
\* descriptor named n, when there is one, has cb appended to the end of its
\* callback list and is otherwise as it was. When n is not registered
\* nothing changes.
C14_RegisterUpgradedCallback ==
  [][(lastCall'.op = "registerUpgradedCallback")
       => /\ thrown' = ""
          /\ UNCHANGED <<dataUpgraded, createdComponents_, elementProps>>
          /\ Len(registeredComponents_') = Len(registeredComponents_)
          /\ \A i \in 1..Len(registeredComponents_) :
               registeredComponents_'[i] =
                 IF registeredComponents_[i].className = lastCall'.jsClass
                 THEN [registeredComponents_[i] EXCEPT
                         !.callbacks = Append(@, lastCall'.callback)]
                 ELSE registeredComponents_[i]
          /\ (~(\E i \in 1..Len(registeredComponents_) :
                  registeredComponents_[i].className = lastCall'.jsClass))
               => UNCHANGED registeredComponents_]_vars

\* registerUpgradedCallback has just been called for a name that is not
\* registered, after two callbacks were appended, in order, to the
\* descriptor of the other name
C14_Witness ==
  /\ lastCall.op = "registerUpgradedCallback"
  /\ thrown = ""
  /\ Len(registeredComponents_) = 1
  /\ registeredComponents_[1].className # lastCall.jsClass
  /\ registeredComponents_[1].callbacks = <<"cb2", "cb1">>

\* the descriptor a register call has just stored
Stored == registeredComponents_'[Len(registeredComponents_')]

\* after a step that ran constructors, e exposes under the name of every
\* instance that was created and tracked that instance if the widget flag of
\* its descriptor is set, and what it exposed before if not
ExposedIffWidget ==
  \A i \in 1..Len(NewInstances) :
    LET c == NewInstances[i]
        n == c.mdlComponentConfigInternal_.className
        d == registeredComponents_[findIndex(registeredComponents_, n)]
    IN /\ Truthy(d.widget) => elementProps'[c.element_][n] = c.id
       /\ ~Truthy(d.widget) =>
            /\ elementProps'[c.element_][n] = elementProps[c.element_][n]
            /\ elementProps'[c.element_][n] # c.id

UpgradeOps == {"upgradeElement", "upgradeElements", "upgradeDom", "upgradeAllRegistered", "load"}

\* C15 as claimed: the widget flag of a registered descriptor is true unless
\* the caller passed false, and after an upgrade the element exposes the new
\* instance under the logical name if and only if the flag is set.
C15_AsClaimed ==
  /\ [][(lastCall'.op = "register" /\ thrown' = "")
          => Stored.widget = (IF lastCall'.config.widget = "false" THEN "false" ELSE "true")]_vars
  /\ [][(lastCall'.op \in UpgradeOps) => ExposedIffWidget]_vars

\* C15: the widget flag of a registered descriptor is true when the caller
\* passed no widget value and is the value passed otherwise, so it is set
\* unless the caller passed a falsy value (false, or the empty string); after
\* an upgrade the element exposes the new instance under the logical name if
\* and only if the flag is set.
C15_WidgetFlag ==
  /\ [][(lastCall'.op = "register" /\ thrown' = "")
          => /\ Stored.widget = (IF lastCall'.config.widget = "undefined" THEN "true"
                                 ELSE lastCall'.config.widget)
             /\ Truthy(Stored.widget) <=> lastCall'.config.widget \notin {"false", "''"}]_vars
  /\ [][(lastCall'.op \in UpgradeOps) => ExposedIffWidget]_vars

\* an upgrade has just given p an instance of LogicalA, whose flag is set by
\* default and which p exposes, and one of LogicalB, registered with widget
\* false, which p does not expose
C15_Witness ==
  /\ lastCall.op \in UpgradeOps
  /\ thrown = ""
  /\ Entries(trace, "construct", "p", "LogicalA") # {}
  /\ Entries(trace, "construct", "p", "LogicalB") # {}
  /\ \E i \in InstancesOf(createdComponents_, "p", "LogicalA") :
       /\ createdComponents_[i].mdlComponentConfigInternal_.widget = "true"
       /\ elementProps["p"][Str("LogicalA")] = createdComponents_[i].id
  /\ \E i \in InstancesOf(createdComponents_, "p", "LogicalB") :
       /\ createdComponents_[i].mdlComponentConfigInternal_.widget = "false"
       /\ elementProps["p"][Str("LogicalB")] = 0

\* the logical name of config is in use and its marker class is not
NameInUseOnly(reg, config) ==
  /\ \E i \in 1..Len(reg) : reg[i].className = config.classAsString
  /\ \A i \in 1..Len(reg) : reg[i].cssClass # config.cssClass

\* the descriptor registerInternal builds from config
Descriptor(config) ==
  [classConstructor |-> config.constructor, className |-> config.classAsString,
   cssClass |-> config.cssClass,
   widget |-> IF config.widget = "undefined" THEN "true" ELSE config.widget,
   callbacks |-> <<>>]

\* C16 as claimed: register with a logical name that a descriptor already
\* uses, and a marker class that none uses, succeeds and overwrites the slot
\* of that name in place, the registry keeping its length.
C16_AsClaimed ==
  [][(lastCall'.op = "register" /\ NameInUseOnly(registeredComponents_, lastCall'.config)
        /\ lastCall'.config.constructor # "Reserved")
       => /\ thrown' = ""
          /\ Len(registeredComponents_') = Len(registeredComponents_)
          /\ registeredComponents_' =
               [registeredComponents_ EXCEPT
                  ![findIndex(registeredComponents_, lastCall'.config.classAsString)] =
                     Descriptor(lastCall'.config)]]_vars

\* C16: register with a logical name that a descriptor already uses, and a
\* marker class that none uses, raises "The provided className has already
\* been registered" and leaves the registry as it was: no slot is ever
\* overwritten. A register call that succeeds found no slot for the logical
\* name and appends its descriptor to the registry.
C16_NoReplaceInPlace ==
  /\ [][(lastCall'.op = "register" /\ NameInUseOnly(registeredComponents_, lastCall'.config))
          => (thrown' = ErrClassName /\ UNCHANGED registeredComponents_)]_vars
  /\ [][(lastCall'.op = "register")
          => /\ \A i \in 1..Len(registeredComponents_) :
                  /\ i <= Len(registeredComponents_')
                  /\ Ref(registeredComponents_'[i]) = Ref(registeredComponents_[i])
             /\ thrown' = ""
                  => /\ findIndex(registeredComponents_, lastCall'.config.classAsString) = 0
                     /\ registeredComponents_' =
                          Append(registeredComponents_, Descriptor(lastCall'.config))]_vars

\* register has just been refused for a logical name in use, asked with a
\* marker class that no descriptor uses and a constructor that is accepted
C16_Witness ==
  /\ lastCall.op = "register"
  /\ thrown = ErrClassName
  /\ NameInUseOnly(registeredComponents_, lastCall.config)
  /\ lastCall.config.constructor = "Widget"
  /\ \E i \in 1..Len(registeredComponents_) :
       /\ registeredComponents_[i].className = lastCall.config.classAsString
       /\ registeredComponents_[i].cssClass # lastCall.config.cssClass
       /\ registeredComponents_[i].widget # lastCall.config.widget

\* the call is a full upgrade pass: upgradeAllRegistered(), or upgradeDom()
FullPass(call) ==
  \/ call.op = "upgradeAllRegistered"
  \/ call = [op |-> "upgradeDom", optJsClass |-> Undefined, optCssClass |-> Undefined]

\* the step created nothing: no constructor and no callback ran, no
\* "upgraded" event fired, and the markers, the tracked list and the exposed
\* properties are as they were
PassIsNoOp ==
  /\ EntriesOfKind(trace', "construct") = {}
  /\ EntriesOfKind(trace', "callback") = {}
  /\ EntriesOfKind(trace', "mdl-componentupgraded") = {}
  /\ UNCHANGED <<dataUpgraded, createdComponents_, elementProps>>

ToUpgrade(d) == {e \in Elements \ preventers : d.cssClass \in classList(e)}

\* every element the pass is to upgrade has the logical name in its marker
AllMarked ==
  \A i \in 1..Len(registeredComponents_') :
    \A e \in ToUpgrade(registeredComponents_'[i]) :
      \E k \in 1..Len(Marker(dataUpgraded', e)) :
        Marker(dataUpgraded', e)[k] = registeredComponents_'[i].className

\* every element the pass is to upgrade has exactly one tracked instance of
\* the descriptor
AllTracked ==
  \A i \in 1..Len(registeredComponents_') :
    \A e \in ToUpgrade(registeredComponents_'[i]) :
      Cardinality({k \in 1..Len(createdComponents_') :
        /\ createdComponents_'[k].element_ = e
        /\ createdComponents_'[k].mdlComponentConfigInternal_.className
             = registeredComponents_'[i].className}) = 1

\* before the step, every logical name in a marker has its tracked instance
MarkersBacked ==
  \A e \in Elements, n \in ClassNames :
    InMarker(dataUpgraded, e, n) => InstancesOf(createdComponents_, e, n) # {}

LoadOnCapableHost == lastCall'.op = "load" /\ HasClassList(host)

C19_IncapableHost ==
  /\ [][(lastCall'.op = "load" /\ ~HasClassList(host))
          => /\ ~mdlJs' /\ disabled'
             /\ trace' = <<>> /\ thrown' = ""
             /\ UpgradeChangedNothing]_vars
  /\ [](~HasClassList(host) => ~mdlJs)
  /\ [][disabled => disabled']_vars
  /\ [][disabled => lastCall'.op \notin {"upgradeElement", "register"}]_vars
  /\ [][(lastCall'.op = "function () {}")
          => /\ disabled
             /\ trace' = <<>> /\ thrown' = ""
             /\ UpgradeChangedNothing]_vars

\* on a host without classList, after the load signal, register has just
\* been called with a descriptor that clashes with nothing, and nothing was
\* registered, while an instance created before the load signal is tracked
C19_Witness ==
  /\ ~HasClassList(host)
  /\ disabled
  /\ lastCall.op = "function () {}"
  /\ lastCall.property = "register"
  /\ lastCall.arguments[1].constructor = "Widget"
  /\ ~Clashes(registeredComponents_, lastCall.arguments[1])
  /\ Len(registeredComponents_) = 1
  /\ Len(createdComponents_) >= 1

\* what a call leaves: the registry, the tracked list, the markers, the
\* exposed properties, the error raised, and what it did, in order
Outcome(s) == <<s.reg, s.created, s.attr, s.props, s.thrown, s.trace>>

\* C20: in every reachable state upgradeAllRegistered() and upgradeDom()
\* without arguments have the same outcome: the same registry, tracked list,
\* markers and exposed properties, the same error if any, and the same
\* events, constructors (with the same instances) and callbacks in the same
\* order; and each of the two calls leaves the outcome of the other.
C20_SameAsUpgradeDom ==
  /\ [](Outcome(upgradeAllRegisteredInternal(Cur))
          = Outcome(upgradeDomInternal(Cur, Undefined, Undefined)))
  /\ [][(lastCall'.op = "upgradeAllRegistered")
          => <<registeredComponents_', createdComponents_', dataUpgraded',
               elementProps', thrown', trace'>>
               = Outcome(upgradeDomInternal(Cur, Undefined, Undefined))]_vars
  /\ [][(lastCall' = [op |-> "upgradeDom", optJsClass |-> Undefined,
                      optCssClass |-> Undefined])
          => <<registeredComponents_', createdComponents_', dataUpgraded',
               elementProps', thrown', trace'>>
               = Outcome(upgradeAllRegisteredInternal(Cur))]_vars

\* upgradeAllRegistered has just created instances for both registered
\* descriptors, three in all, on a page where one element was upgraded before
C20_Witness ==
  /\ lastCall.op = "upgradeAllRegistered"
  /\ thrown = ""
  /\ Len(registeredComponents_) = 2
  /\ Cardinality(EntriesOfKind(trace, "construct")) = 3
  /\ Len(createdComponents_) = 4

\* the position of the last constructor call before entry i of the trace, 0 if none
LastConstruct(tr, i) ==
  IF \E c \in 1..(i-1) : tr[c].kind = "construct"
  THEN CHOOSE c \in 1..(i-1) :
         tr[c].kind = "construct" /\ \A k \in (c+1)..(i-1) : tr[k].kind # "construct"
  ELSE 0

\* the data-upgraded attribute holds the logical name
InAttr(a, name) == ~a.isNull /\ name \in Range(split(a.str))

\* the list of instances holds the instance of this name and number
HasInstance(tracked, name, id) ==
  \E k \in 1..Len(tracked) :
    tracked[k].id = id /\ tracked[k].mdlComponentConfigInternal_.className = name

\* C21: for each descriptor applied to an element the steps happen in this
\* order: the logical name is persisted in the marker, the constructor runs,
\* the instance is tracked, the descriptor's callbacks run, the instance is
\* exposed if the widget flag is set, and the "upgraded" event fires. So when
\* the constructor runs the name is in the marker and the instance is neither
\* tracked nor exposed; when a callback runs the name is in the marker, the
\* instance is tracked and it is not yet exposed; and when the "upgraded"
\* event fires all the callbacks of the descriptor have run, the instance is
\* tracked, and it is exposed exactly if the widget flag is set.
C21_StepOrder ==
  \A i \in 1..Len(trace) :
    LET c == LastConstruct(trace, i)
        e == trace[i]
    IN /\ e.kind = "construct" =>
            /\ InAttr(e.attr, e.name)
            /\ ~HasInstance(e.tracked, e.name, e.id)
            /\ e.exposed[e.name] # e.id
       /\ e.kind = "callback" =>
            /\ c > 0
            /\ trace[c].target = e.target /\ trace[c].name = e.name
            /\ \A k \in (c+1)..(i-1) : trace[k].kind = "callback"
            /\ InAttr(e.attr, e.name)
            /\ HasInstance(e.tracked, e.name, trace[c].id)
            /\ e.exposed[e.name] # trace[c].id
       /\ e.kind = "mdl-componentupgraded" =>
            /\ c > 0
            /\ trace[c].target = e.target
            /\ \A k \in (c+1)..(i-1) : trace[k].kind = "callback"
            /\ i - c - 1 = Len(registeredComponents_[findIndex(registeredComponents_,
                                                               trace[c].name)].callbacks)
            /\ InAttr(e.attr, trace[c].name)
            /\ HasInstance(e.tracked, trace[c].name, trace[c].id)
            /\ e.exposed[trace[c].name] = trace[c].id
                 <=> Truthy(registeredComponents_[findIndex(registeredComponents_,
                                                            trace[c].name)].widget)

\* a descriptor with the widget flag set and two callbacks has been applied:
\* the callbacks did not see the instance exposed and the event does
C21_Witness ==
  \E i \in 1..Len(trace) :
    LET c == LastConstruct(trace, i)
    IN /\ trace[i].kind = "mdl-componentupgraded"
       /\ c > 0 /\ i - c - 1 = 2
       /\ trace[i-1].kind = "callback"
       /\ trace[i-1].exposed[trace[c].name] # trace[c].id
       /\ trace[i].exposed[trace[c].name] = trace[c].id

\* the callbacks registered for the logical name, in the order of registration
CallbacksOf(reg, name) == reg[findIndex(reg, name)].callbacks

\* C22: each time a descriptor is newly instantiated on an element (its
\* constructor returned), every callback registered for its logical name is
\* invoked exactly once with that element, in the order of registration,
\* before the "upgraded" event; and no callback is invoked otherwise: every
\* invocation belongs to the instantiation just before it, so callbacks of
\* other descriptors do not run, and a call that instantiates nothing (the
\* element is skipped as already upgraded) invokes none.
C22_CallbacksOncePerInstance ==
  /\ \A c \in EntriesOfKind(trace, "construct") :
       LET callbacks == CallbacksOf(registeredComponents_, trace[c].name)
           m == Len(callbacks)
       IN \/ c = Len(trace) /\ thrown = ErrConstructor
          \/ /\ c + m + 1 <= Len(trace)
             /\ \A k \in 1..m :
                  /\ trace[c+k].kind = "callback"
                  /\ trace[c+k].target = trace[c].target
                  /\ trace[c+k].name = trace[c].name
                  /\ trace[c+k].cb = callbacks[k]
             /\ trace[c+m+1].kind = "mdl-componentupgraded"
  /\ \A i \in EntriesOfKind(trace, "callback") :
       LET c == LastConstruct(trace, i)
       IN /\ c > 0
          /\ i - c <= Len(CallbacksOf(registeredComponents_, trace[c].name))
          /\ \A k \in (c+1)..i : trace[k].kind = "callback"

\* a call instantiated a descriptor with the callbacks cb2 and cb1, registered
\* in this order, and invoked cb2 and then cb1
C22_Witness ==
  \E c \in EntriesOfKind(trace, "construct") :
    /\ CallbacksOf(registeredComponents_, trace[c].name) = <<"cb2", "cb1">>
    /\ trace[c+1].cb = "cb2" /\ trace[c+2].cb = "cb1"
    /\ thrown = ""

\* the call selects the descriptors by the classes of the element:
\* upgradeElement(e) without a logical name, or upgradeElements
SelectsByClass(call) ==
  \/ call.op = "upgradeElement" /\ ~call.optJsClass.defined
  \/ call.op = "upgradeElements"

\* the element carries the marker class of a registered descriptor
CarriesRegisteredClass(reg, e) ==
  \E i \in 1..Len(reg) : reg[i].cssClass \in classList(e)

\* C23: upgradeElement(e) without a logical name, and upgradeElements,
\* instantiate a descriptor on an element only if the element carries the
\* descriptor's marker class and its marker did not contain the logical name
\* (not before the call, and once when the constructor runs); an element
\* that carries no registered marker class gets no instance and keeps its
\* marker.
C23_SelectionByClass ==
  [][SelectsByClass(lastCall') =>
       /\ \A c \in EntriesOfKind(trace', "construct") :
            LET e == trace'[c].target
                n == trace'[c].name
            IN /\ findIndex(registeredComponents_, n) # 0
               /\ registeredComponents_[findIndex(registeredComponents_, n)].cssClass
                    \in classList(e)
               /\ ~InAttr(dataUpgraded[e], n)
               /\ Cardinality({k \in 1..Len(split(trace'[c].attr.str)) :
                                 split(trace'[c].attr.str)[k] = n}) = 1
       /\ \A e \in Elements :
            ~CarriesRegisteredClass(registeredComponents_, e) =>
              /\ \A c \in EntriesOfKind(trace', "construct") : trace'[c].target # e
              /\ dataUpgraded'[e] = dataUpgraded[e]
              /\ trackedOf(createdComponents_', e) = <<>>
                   \/ trackedOf(createdComponents_', e) = trackedOf(createdComponents_, e)]_vars

\* an upgradeElements call on a list that holds an element with a registered
\* marker class that is upgraded, an element already upgraded for the
\* descriptor of its class that is skipped, and reaches an element without
\* a registered marker class that is left alone
C23_Witness ==
  /\ lastCall.op = "upgradeElements"
  /\ thrown = ""
  /\ \E e \in Elements :
       /\ EntriesOfKind(trace, "construct") # {}
       /\ \E i \in EntriesOfKind(trace, "mdl-componentupgrading") : trace[i].target = e
       /\ CarriesRegisteredClass(registeredComponents_, e)
       /\ \A c \in EntriesOfKind(trace, "construct") : trace[c].target # e
  /\ \E e \in Elements :
       /\ \E i \in EntriesOfKind(trace, "mdl-componentupgrading") : trace[i].target = e
       /\ ~CarriesRegisteredClass(registeredComponents_, e)
       /\ dataUpgraded[e].isNull

\* the call is upgradeElement on an element
UpgradeOfElement(call) == call.op = "upgradeElement" /\ call.element \in Elements

\* a callback or a listener called upgradeElement on the element of the call
\* while the call was running: the element has a second "upgrading" event
Reentered(tr, e) ==
  Cardinality({i \in EntriesOfKind(tr, "mdl-componentupgrading") : tr[i].target = e}) > 1

\* C24: when a callback or a listener of "mdl-componentupgraded", running
\* inside upgradeElement(e), calls upgradeElement(e), no pair of e and a
\* logical name ends up with two tracked instances, and every logical name
\* for which a constructor ran on e is in e's marker.
C24_AsClaimed ==
  [][(UpgradeOfElement(lastCall') /\ Reentered(trace', lastCall'.element) /\ thrown' = "") =>
       /\ \A n \in ClassNames :
            Cardinality(InstancesOf(createdComponents_', lastCall'.element, n)) <= 1
       /\ \A c \in EntriesOfKind(trace', "construct") :
            InAttr(dataUpgraded'[trace'[c].target], trace'[c].name)]_vars

\* the elements of the list of an upgradeElements call
ItemsOf(l) == IF l.kind = "Node" /\ l.items[1] \notin Elements THEN <<>> ELSE l.items

\* the descriptor's marker class is on the element and its logical name was
\* not in the element's marker when the call began
Matches(d, x) == d.cssClass \in classList(x) /\ ~InAttr(dataUpgraded[x], d.className)

\* C25: cancelling the "upgrading" event of an element during an
\* upgradeElements scan aborts only that element's own upgrade. The scan
\* visits the elements in pre-order, whether their events are cancelled or
\* not: after a cancelled element it goes on with that element's children
\* and with the rest of the list, and it ends before the last element of
\* the pre-order only with an error raised on an element that is not
\* cancelled. Every element passed by the scan that is not cancelled is
\* upgraded for every matching descriptor: the constructor runs once, the
\* instance is tracked and the name is in the marker.
C25_CancelAbortsOnlyThatElement ==
  [][(lastCall'.op = "upgradeElements") =>
       LET order == PreOrder(ItemsOf(lastCall'.elements))
           visited == Targets(trace', "mdl-componentupgrading")
           passed == IF thrown' = "" THEN Len(visited) ELSE Len(visited) - 1
       IN /\ IsPrefix(visited, order)
          /\ thrown' = "" => visited = order
          /\ \A k \in 1..Len(visited) :
               visited[k] \in preventers =>
                 /\ k < Len(order) => k < Len(visited)
                 /\ children(visited[k]) # <<>> =>
                      /\ k < Len(visited)
                      /\ visited[k+1] = children(visited[k])[1]
          /\ \A k \in 1..passed, j \in 1..Len(registeredComponents_) :
               LET x == visited[k]
                   d == registeredComponents_[j]
               IN (x \notin preventers /\ Matches(d, x)) =>
                    /\ Cardinality(Entries(trace', "construct", x, d.className[1])) = 1
                    /\ Cardinality(InstancesOf(createdComponents_', x, d.className[1])) = 1
                    /\ InAttr(dataUpgraded'[x], d.className)]_vars

\* upgradeElements([div, p]) with the "upgrading" event of the div cancelled:
\* nothing is constructed on the div, and its child and then p are upgraded
C25_Witness ==
  /\ lastCall.op = "upgradeElements"
  /\ lastCall.elements = Array(<<"div", "p">>)
  /\ preventers = {"div"}
  /\ Targets(trace, "mdl-componentupgrading") = <<"div", "span", "p">>
  /\ Range(Targets(trace, "construct")) = {"span", "p"}
  /\ \E j \in 1..Len(registeredComponents_) :
       registeredComponents_[j].cssClass \in classList("div")

\* the positions in the trace of the events of this type dispatched on e
EventsOn(tr, kind, e) == {i \in EntriesOfKind(tr, kind) : tr[i].target = e}

\* the position of the last "upgrading" event before entry i of the trace, 0 if none
LastUpgrading(tr, i) ==
  IF \E u \in 1..(i-1) : tr[u].kind = "mdl-componentupgrading"
  THEN CHOOSE u \in 1..(i-1) :
         /\ tr[u].kind = "mdl-componentupgrading"
         /\ \A k \in (u+1)..(i-1) : tr[k].kind # "mdl-componentupgrading"
  ELSE 0

\* C26: the lifecycle events match the state changes one to one. In every
\* call and for every element, the "upgraded" events dispatched on the
\* element are as many as the instances the call added to tracking for it,
\* each event following the constructor call of an instance that was not
\* tracked before and is tracked after (so none when nothing is
\* instantiated); the "downgraded" events are as many as the instances the
\* call removed from tracking for it, each for an instance that was tracked
\* before and is not after. An upgradeElement call on an element dispatches
\* "upgrading" exactly once, first of all, and in every call each "upgraded"
\* event comes after the "upgrading" event of the same element.
C26_EventsMatchStateChanges ==
  [][/\ \A e \in Elements :
          LET before == trackedOf(createdComponents_, e)
              after == trackedOf(createdComponents_', e)
              up == EventsOn(trace', "mdl-componentupgraded", e)
              down == EventsOn(trace', "mdl-componentdowngraded", e)
          IN /\ up = {} \/ down = {}
             /\ Len(after) = Len(before) + Cardinality(up) - Cardinality(down)
             /\ up = {} => IsPrefix(after, before) \/ down # {}
             /\ down = {} => IsPrefix(before, after)
             /\ \A i \in up :
                  LET c == LastConstruct(trace', i)
                  IN /\ c > 0 /\ trace'[c].target = e
                     /\ \A j \in up : j < i => j < c
                     /\ ~HasInstance(before, trace'[c].name, trace'[c].id)
                     /\ HasInstance(after, trace'[c].name, trace'[c].id)
                     /\ LastUpgrading(trace', i) > 0
                     /\ trace'[LastUpgrading(trace', i)].target = e
             /\ \A i \in down :
                  /\ HasInstance(before, trace'[i].name, trace'[i].id)
                  /\ ~HasInstance(after, trace'[i].name, trace'[i].id)
                  /\ \A j \in down :
                       (trace'[j].name = trace'[i].name /\ trace'[j].id = trace'[i].id)
                         => j = i
     /\ (lastCall'.op = "upgradeElement" /\ lastCall'.element \in Elements) =>
          /\ EntriesOfKind(trace', "mdl-componentupgrading") = {1}
          /\ trace'[1].target = lastCall'.element
     /\ (lastCall'.op = "upgradeElement" /\ lastCall'.element \notin Elements) =>
          trace' = <<>>]_vars

\* downgradeElements(p) has just removed the two instances of p from tracking
\* and dispatched two "downgraded" events on p, after the upgradeElement call
\* that created them
C26_Witness ==
  /\ lastCall.op = "downgradeElements"
  /\ lastCall.nodes = OneNode("p")
  /\ Cardinality(EventsOn(trace, "mdl-componentdowngraded", "p")) = 2
  /\ trackedOf(createdComponents_, "p") = <<>>
  /\ thrown = ""

\* the public operations, each running to completion without raising
NextCompleted == Next /\ thrown' = ""

SpecCompleted == Init /\ [][NextCompleted]_vars

\* C27: after any sequence of public operations that each ran to completion
\* without raising, and whose callbacks and listeners did not call the
\* handler back, marker and tracking agree: for every element e and logical
\* name n, n is in e's marker if and only if the tracked list holds an
\* instance for (e, n), and every such n is a registered logical name.
C27_MarkerAndTrackingAgree ==
  \A e \in Elements, n \in ClassNames :
    /\ InMarker(dataUpgraded, e, n) <=> InstancesOf(createdComponents_, e, n) # {}
    /\ InMarker(dataUpgraded, e, n) => findIndex(registeredComponents_, Str(n)) # 0

\* an element upgraded for two logical names has just been downgraded, its
\* marker holds no name and none of its instances is tracked, while another
\* element is still upgraded
C27_Witness ==
  /\ lastCall.op = "downgradeElements"
  /\ thrown = ""
  /\ Cardinality(EntriesOfKind(trace, "mdl-componentdowngraded")) = 2
  /\ \E e \in Elements :
       /\ ~dataUpgraded[e].isNull
       /\ \A n \in ClassNames : ~InMarker(dataUpgraded, e, n)
       /\ trackedOf(createdComponents_, e) = <<>>
  /\ \E e \in Elements, n \in ClassNames :
       InMarker(dataUpgraded, e, n) /\ InstancesOf(createdComponents_, e, n) # {}

\* C28: downgradeElements changes only the tracked list and the markers: the
\* registry and every property exposed on an element stay as they were, so
\* each instance the call removed from tracking that was exposed on its
\* element under its logical name is still exposed there and is no longer
\* tracked. An exposed property changes only in a later upgrade that creates
\* a new instance for the same element and name, which then is the one exposed.
C28_DowngradeKeepsExposedInstance ==
  /\ [][(lastCall'.op = "downgradeElements") =>
          /\ UNCHANGED <<elementProps, registeredComponents_>>
          /\ \A i \in EntriesOfKind(trace', "mdl-componentdowngraded") :
               LET e == trace'[i].target
                   n == trace'[i].name
               IN /\ ~HasInstance(trackedOf(createdComponents_', e), n, trace'[i].id)
                  /\ elementProps[e][n] = trace'[i].id => elementProps'[e][n] = trace'[i].id]_vars
  /\ [][\A e \in Elements, n \in ClassNames :
          elementProps'[e][Str(n)] # elementProps[e][Str(n)] =>
            /\ lastCall'.op \in UpgradeOps
            /\ \E c \in Entries(trace', "construct", e, n) :
                 /\ trace'[c].id = elementProps'[e][Str(n)]
                 /\ HasInstance(trackedOf(createdComponents_', e), Str(n), trace'[c].id)
                 /\ ~HasInstance(trackedOf(createdComponents_, e), Str(n), trace'[c].id)]_vars

\* an element has been upgraded for a widget descriptor, downgraded, and
\* upgraded again: when the second constructor ran the element still exposed
\* the first instance, which was not tracked, and now it exposes the second
C28_Witness ==
  /\ lastCall.op \in UpgradeOps
  /\ \E c \in EntriesOfKind(trace, "construct") :
       LET e == trace[c].target
           n == trace[c].name
       IN /\ trace[c].exposed[n] # 0
          /\ trace[c].exposed[n] # trace[c].id
          /\ ~HasInstance(trace[c].tracked, n, trace[c].exposed[n])
          /\ elementProps[e][n] = trace[c].id

\* a call in which a constructor raised ends with the error, the logical
\* name in the element's marker, persisted before the constructor ran, and
\* no instance of that name tracked for the element
RaisedLeavesMarker ==
  thrown' = ErrConstructor =>
    LET last == trace'[Len(trace')]
    IN /\ last.kind = "construct"
       /\ ~InAttr(dataUpgraded[last.target], last.name)
       /\ InAttr(last.attr, last.name)
       /\ InAttr(dataUpgraded'[last.target], last.name)
       /\ InstancesOf(createdComponents_', last.target, last.name[1]) = {}

\* no call runs a constructor for an element and a logical name that the
\* element's marker held when the call began
MarkedIsSkipped ==
  \A c \in EntriesOfKind(trace', "construct") :
    ~InAttr(dataUpgraded[trace'[c].target], trace'[c].name)

\* the logical name is in the element's marker and no instance of it is
\* tracked for the element
Stale(attr, created, e, n) == InMarker(attr, e, n) /\ InstancesOf(created, e, n) = {}

DowngradeOfElement(call) ==
  /\ call.op = "downgradeElements"
  /\ call.nodes.kind = "Node"
  /\ call.nodes.items[1] \in Elements

\* C30: downgradeElements(node) removes from the tracked list only instances
\* whose element is node, also when a listener of "mdl-componentdowngraded"
\* calls downgradeElements(node) while the outer call is running: the tracked
\* instances of every other element stay as they were.
C30_AsClaimed ==
  [][DowngradeOfElement(lastCall') =>
       \A e \in Elements \ {lastCall'.nodes.items[1]} :
         trackedOf(createdComponents_', e) = trackedOf(createdComponents_, e)]_vars

====
